---- MODULE Spec2Model ----
(***************************************************************************)
(* The realtime soundfile objects of d_soundfile.c: readsf~ and writesf~.  *)
(*                                                                         *)
(* Each object is one t_readsf structure shared by two threads: the parent *)
(* thread ("the object proper runs in the calling (parent) thread": the    *)
(* message methods open/start/stop/free and the perform routine) and the   *)
(* child thread (readsf_child_main / writesf_child_main) that does all     *)
(* file I/O.  They synchronise on x_mutex and on the two condition         *)
(* variables x_requestcondition (the child waits on it) and                *)
(* x_answercondition (the parent waits on it).                             *)
(*                                                                         *)
(* Granularity: one action is the code a thread runs between two points    *)
(* where it can block or where it gives up the mutex: pthread_mutex_lock,  *)
(* pthread_cond_wait, and the file I/O calls made with the mutex released. *)
(*                                                                         *)
(* Sizes are scaled down (READSIZE, WRITESIZE, MAXVECSIZE and the "16" of  *)
(* the signalling period) so that the ring wraps within a few blocks; the  *)
(* relations between them (MINBUFSIZE = 4 * READSIZE, fifosize rounded to  *)
(* a multiple of bytesperframe * MAXVECSIZE) are the code's.               *)
(***************************************************************************)
EXTENDS Integers, Sequences, FiniteSets, TLC

(* ---- enum _soundfile_request, enum _soundfile_state ---- *)
REQUEST_NOTHING == 0
REQUEST_OPEN == 1
REQUEST_CLOSE == 2
REQUEST_QUIT == 3
REQUEST_BUSY == 4

STATE_IDLE == 0
STATE_STARTUP == 1
STATE_STREAM == 2

(* ---- sizes (scaled) ---- *)
MAXVECSIZE == 2
READSIZE == 4
WRITESIZE == 4
MINBUFSIZE == 4 * READSIZE
SigsPerBuffer == 2
SFMAXBYTES == 90
SFMAXFRAMES == 90
\* number of values of a size_t
SIZE_RANGE == 65536
SAMPBUFSIZE == 8
MaxFrames == 6
MaxTable == 3

(* ---- bounds of the model ---- *)
\* the object's buffer is BufExtra bytes larger than MINBUFSIZE
BufExtra == 1
\* number of data bytes of the longest file the reader opens
MaxFileLen == 21
\* number of open/start/stop messages the parent sends
MaxOps == 3
\* number of open messages among those the parent sends to the reader
MaxOpens == 2
\* number of open/start/stop messages the parent sends to the writer
MaxOpsW == 4
\* number of blocks the writer's perform routine encodes after an open
MaxBlocks == 5
\* number of write calls that fail or fall short
MaxIoErrs == 1

\* the soundfiles on disk: number of data bytes, frame size (one channel),
\* whether the header tells the data size (else bytelimit stays SFMAXBYTES),
\* the file type whose t_isheaderfn accepts the header, the header's size and
\* the byte order
Files == {[len |-> MaxFileLen, bpf |-> 2, known |-> TRUE, type |-> "wave",
           headersize |-> 4, bigendian |-> 0],
          [len |-> 7, bpf |-> 3, known |-> FALSE, type |-> "aiff",
           headersize |-> 5, bigendian |-> 1]}
\* arguments of the reader's open message ([-type] filename [onset]
\* [headersize] [nchannels] [bytespersample] [endian]): a plain open, and an
\* open with a type flag and an onset that overrides the header
OpenArgs ==
    {[type |-> "none", onset |-> 0, headersize |-> 0, nchannels |-> 0,
      bytespersample |-> 0, endian |-> ""],
     [type |-> "wave", onset |-> 1, headersize |-> 6, nchannels |-> 1,
      bytespersample |-> 3, endian |-> "b"]}
\* "-bytes" arguments of the writer's open message
BytesPerSample == {2, 3}
\* errno left by a failed open or read ("EIO is used as generic errnum")
EIO == 5

Min(a, b) == IF a < b THEN a ELSE b
Max(a, b) == IF a > b THEN a ELSE b

VARIABLES
    x_state,        \* t_readsf.x_state
    x_requestcode,  \* t_readsf.x_requestcode
    x_filename,     \* t_readsf.x_filename (the n-th open names file n)
    x_fileerror,    \* t_readsf.x_fileerror
    x_sf,           \* t_readsf.x_sf: the fields of t_soundfile but the sample rate
    x_onsetframes,  \* t_readsf.x_onsetframes
    x_fifosize,     \* t_readsf.x_fifosize
    x_fifohead,     \* t_readsf.x_fifohead
    x_fifotail,     \* t_readsf.x_fifotail
    x_eof,          \* t_readsf.x_eof
    x_sigcountdown, \* t_readsf.x_sigcountdown
    x_sigperiod,    \* t_readsf.x_sigperiod
    x_frameswritten,\* t_readsf.x_frameswritten
    x_vecsize,      \* t_readsf.x_vecsize
    x_buf,          \* t_readsf.x_buf: index -> offset in the current file of the
                    \* byte stored there, or -1 for any other content
    mutex,          \* owner of x_mutex: "free", "parent", "child"
    waitC,          \* the child on x_requestcondition: "no","waiting","signaled"
    waitP,          \* the parent on x_answercondition
    pcC,            \* where the child thread is
    sf,             \* the child's local t_soundfile sf
    c,              \* the child's other locals
    pcP,            \* where the parent thread is
    p,              \* the parent's locals (perform's sf and vecsize, open's arguments)
    fs,             \* the file system: open descriptors, the file being read/written
    obs             \* the object's class and what it has done so far (outputs,
                    \* reports, writes)

vars == <<x_state, x_requestcode, x_filename, x_fileerror, x_sf, x_onsetframes,
          x_fifosize, x_fifohead, x_fifotail, x_eof, x_sigcountdown, x_sigperiod,
          x_frameswritten, x_vecsize, x_buf, mutex, waitC, waitP, pcC, sf, c,
          pcP, p, fs, obs>>

xvars == <<x_state, x_requestcode, x_filename, x_fileerror, x_sf, x_onsetframes,
           x_fifosize, x_fifohead, x_fifotail, x_eof, x_sigcountdown, x_sigperiod,
           x_frameswritten, x_vecsize, x_buf>>

x_bufsize == MINBUFSIZE + BufExtra

(* ---- pthread_cond_signal / pthread_cond_wait ---- *)
sfread_cond_signal(w) == IF w = "waiting" THEN "signaled" ELSE w

(* ---- soundfile_clear ---- *)
soundfile_clear ==
    [fd |-> -1, bytelimit |-> SFMAXBYTES, bytesperframe |-> 0, type |-> "none",
     headersize |-> 0, nchannels |-> 0, bytespersample |-> 0, bigendian |-> 0]

(* ---- soundfile_clearinfo: the sample format is forgotten, fd and type stay ---- *)
soundfile_clearinfo(s) ==
    [s EXCEPT !.nchannels = 0, !.bytespersample = 0, !.headersize = 0,
              !.bigendian = 0, !.bytesperframe = 0, !.bytelimit = SFMAXBYTES]

(* ---- soundfile_type_close: closes the descriptor and forgets it ---- *)
soundfile_type_close(s) == [s EXCEPT !.fd = -1]

\* sys_close(fd) as soundfile_type_close calls it: only for fd >= 0
\* (fs.name, fs.len, fs.pos describe the one file that is open)
CloseFd(f, fd) ==
    IF fd >= 0
    THEN [f EXCEPT !.fds = @ \ {fd}, !.badclose = @ \/ (fd \notin f.fds),
                   !.name = 0, !.len = 0, !.pos = 0]
    ELSE f

(* ---- fifosize and sigperiod as the child (readsf) and writesf_open set them ---- *)
FifoSizeFor(bpf) == x_bufsize - (x_bufsize % (bpf * MAXVECSIZE))
SigPeriodFor(fifosize, bpf, vecsize) == fifosize \div (SigsPerBuffer * bpf * vecsize)

\* Locals of the two threads.  A local that is dead (its block has been left,
\* or it will be assigned before it is read again) is put back to its value
\* here, so that states differing only in dead locals are one state.
NoLocalsC == [filename |-> 0, onsetframes |-> 0, wantbytes |-> 0, fifohead |-> 0,
              bytesread |-> 0, errno |-> 0, writebytes |-> 0, fifotail |-> 0,
              byteswritten |-> 0, frameswritten |-> 0, quit |-> FALSE]
NoArgs == [type |-> "none", onset |-> 0, headersize |-> 0, nchannels |-> 0,
           bytespersample |-> 0, endian |-> ""]
NoLocalsP == [bpf |-> 0, vecsize |-> 0, args |-> NoArgs, bps |-> 0]

(***************************************************************************)
(* State after readsf_new / writesf_new: the structure is initialised and  *)
(* the child thread has been created; it has not yet taken the mutex.      *)
(* kind tells which of the two classes the object belongs to.              *)
(***************************************************************************)
ObjectInit(kind) ==
    /\ x_state = STATE_IDLE
    /\ x_requestcode = REQUEST_NOTHING
    /\ x_filename = 0
    /\ x_fileerror = 0
    /\ x_sf = [soundfile_clear EXCEPT !.bytesperframe = 2]
    /\ x_onsetframes = 0
    /\ x_fifosize = 0
    /\ x_fifohead = 0
    /\ x_fifotail = 0
    /\ x_eof = 0
    /\ x_sigcountdown = 0
    /\ x_sigperiod = 0
    /\ x_frameswritten = 0
    /\ x_vecsize = MAXVECSIZE
    /\ x_buf = [i \in 0..(x_bufsize - 1) |-> -1]
    /\ mutex = "free"
    /\ waitC = "no"
    /\ waitP = "no"
    /\ pcC = "start_lock"
    /\ sf = soundfile_clear
    /\ c = NoLocalsC
    /\ pcP = "idle"
    /\ p = NoLocalsP
    /\ fs = [fds |-> {}, badclose |-> FALSE, name |-> 0, len |-> 0, pos |-> 0]
    /\ obs = [kind |-> kind, ops |-> 0, ok |-> TRUE, decoded |-> 0, err |-> 0,
              nbang |-> 0, out |-> "none", wok |-> TRUE, encoded |-> 0,
              handed |-> 0, header |-> -1, nioerr |-> 0, args |-> NoArgs,
              xfer |-> 0]

\* readsf_new
Init == ObjectInit("readsf")

\* writesf_new
InitW == ObjectInit("writesf")

(***************************************************************************)
(*                      readsf~ : the child thread                         *)
(***************************************************************************)

\* pthread_mutex_lock in the child: at thread start and after each I/O call
ChildRelock ==
    [start_lock |-> "top", open_close_lock |-> "open_close_cs",
     open_io_lock |-> "open_io_cs", read_io_lock |-> "read_cs",
     lost_close_lock |-> "lost_cs", close_close_lock |-> "close_cs",
     quit_close_lock |-> "quit_cs",
     create_lock |-> "create_cs", write_lock |-> "write_cs",
     wopen_finish_lock |-> "wopen_finish_cs",
     wclose_finish_lock |-> "wclose_finish_cs"]

child_lock ==
    /\ pcC \in DOMAIN ChildRelock
    /\ mutex = "free"
    /\ mutex' = "child"
    /\ pcC' = ChildRelock[pcC]
    /\ UNCHANGED <<xvars, waitC, waitP, sf, c, pcP, p, fs, obs>>

\* return from sfread_cond_wait(&x->x_requestcondition, &x->x_mutex)
child_wake ==
    /\ pcC \in {"top_wait", "fill_wait", "drain_wait"}
    /\ waitC = "signaled"
    /\ mutex = "free"
    /\ mutex' = "child"
    /\ waitC' = "no"
    /\ pcC' = CASE pcC = "top_wait" -> "top"
                 [] pcC = "fill_wait" -> "fill"
                 [] OTHER -> "drain"
    /\ UNCHANGED <<xvars, waitP, sf, c, pcP, p, fs, obs>>

\* REQUEST_NOTHING: signal the parent and wait; any code the loop does not
\* know (the final else) just goes round the loop with the mutex held
readsf_child_nothing ==
    /\ pcC = "top" /\ mutex = "child"
    /\ x_requestcode \notin {REQUEST_OPEN, REQUEST_CLOSE, REQUEST_QUIT}
    /\ IF x_requestcode = REQUEST_NOTHING
       THEN /\ waitP' = sfread_cond_signal(waitP)
            /\ waitC' = "waiting"
            /\ mutex' = "free"
            /\ pcC' = "top_wait"
       ELSE UNCHANGED <<waitP, waitC, mutex, pcC>>
    /\ UNCHANGED <<xvars, sf, c, pcP, p, fs, obs>>

\* REQUEST_OPEN up to the first unlock
readsf_child_open ==
    /\ pcC = "top" /\ mutex = "child"
    /\ x_requestcode = REQUEST_OPEN
    /\ c' = [c EXCEPT !.onsetframes = x_onsetframes, !.filename = x_filename]
    /\ x_requestcode' = REQUEST_BUSY
    /\ x_fileerror' = 0
    /\ IF x_sf.fd >= 0
       THEN /\ pcC' = "open_close"
            /\ sf' = sf
       ELSE /\ pcC' = "open_io"
            /\ sf' = x_sf
    /\ mutex' = "free"
    /\ UNCHANGED <<x_state, x_filename, x_sf, x_onsetframes, x_fifosize, x_fifohead,
                   x_fifotail, x_eof, x_sigcountdown, x_sigperiod, x_frameswritten,
                   x_vecsize, x_buf, waitC, waitP, pcP, p, fs, obs>>

\* sf.sf_type->t_closefn(&sf) with the mutex released (all four places)
readsf_child_closefn ==
    /\ pcC \in {"open_close", "lost_close", "close_close", "quit_close"}
    /\ fs' = CloseFd(fs, sf.fd)
    /\ sf' = soundfile_type_close(sf)
    /\ pcC' = CASE pcC = "open_close" -> "open_close_lock"
                 [] pcC = "lost_close" -> "lost_close_lock"
                 [] pcC = "close_close" -> "close_close_lock"
                 [] OTHER -> "quit_close_lock"
    /\ UNCHANGED <<xvars, mutex, waitC, waitP, c, pcP, p, obs>>

\* the t_soundfile after t_openfn and t_readheaderfn have succeeded on file f:
\* with sf_headersize >= 0 the header is not read, the type is the raw type
\* and the sample format is the caller's; else the type is the one given, or
\* the one that recognises the header, and the format is the header's
HeaderRead(s, fd, f) ==
    IF s.headersize >= 0
    THEN [s EXCEPT !.fd = fd, !.type = "raw",
                   !.bytesperframe = s.nchannels * s.bytespersample]
    ELSE [s EXCEPT !.fd = fd, !.type = f.type, !.headersize = f.headersize,
                   !.nchannels = 1, !.bytespersample = f.bpf,
                   !.bigendian = f.bigendian, !.bytesperframe = f.bpf,
                   !.bytelimit = IF f.known THEN f.len ELSE @]

\* open_soundfile_via_path(dirname, filename, &sf, onsetframes), mutex released:
\* it fails (sf_fd = -1, errno set) or opens the file, reads the header and
\* seeks to the onset, reducing bytelimit by the bytes skipped
open_soundfile_via_path(ok, f) ==
    IF ok
    THEN /\ sf.headersize < 0 => sf.type \in {"none", f.type}
         /\ LET h == HeaderRead(sf, c.filename, f)
            IN /\ sf' = [h EXCEPT !.bytelimit =
                                   Max(0, @ - h.bytesperframe * c.onsetframes)]
               /\ fs' = [fs EXCEPT !.fds = @ \cup {c.filename},
                                   !.name = c.filename, !.len = f.len,
                                   !.pos = h.bytesperframe * c.onsetframes]
         /\ c' = c
    ELSE /\ sf' = [sf EXCEPT !.fd = -1]
         /\ c' = [c EXCEPT !.errno = EIO]
         /\ fs' = fs

readsf_child_openfile ==
    /\ pcC = "open_io"
    /\ \/ \E f \in Files : open_soundfile_via_path(TRUE, f)
       \/ open_soundfile_via_path(FALSE, CHOOSE f \in Files : TRUE)
    /\ pcC' = "open_io_lock"
    /\ UNCHANGED <<xvars, mutex, waitC, waitP, pcP, p, obs>>

\* after a close: the code that follows pthread_mutex_lock at each of the
\* four places the child closes its file
readsf_child_closed ==
    /\ pcC \in {"open_close_cs", "lost_cs", "close_cs", "quit_cs"}
    /\ mutex = "child"
    /\ CASE pcC = "open_close_cs" ->
              \* x->x_sf.sf_fd = -1; if (x->x_requestcode != REQUEST_BUSY) goto lost;
              \* soundfile_copy(&sf, &x->x_sf); unlock
              /\ x_sf' = [x_sf EXCEPT !.fd = -1]
              /\ IF x_requestcode # REQUEST_BUSY
                 THEN /\ pcC' = "lost"
                      /\ UNCHANGED <<sf, mutex>>
                 ELSE /\ sf' = x_sf'
                      /\ mutex' = "free"
                      /\ pcC' = "open_io"
              /\ UNCHANGED <<x_requestcode, waitP>>
         [] pcC = "lost_cs" ->
              /\ waitP' = sfread_cond_signal(waitP)
              /\ pcC' = "top"
              /\ UNCHANGED <<x_sf, x_requestcode, sf, mutex>>
         [] pcC = "close_cs" ->
              /\ x_sf' = [x_sf EXCEPT !.fd = -1]
              /\ x_requestcode' = IF x_requestcode = REQUEST_CLOSE
                                  THEN REQUEST_NOTHING ELSE x_requestcode
              /\ waitP' = sfread_cond_signal(waitP)
              /\ pcC' = "top"
              /\ UNCHANGED <<sf, mutex>>
         [] OTHER ->
              \* REQUEST_QUIT: break, then the final pthread_mutex_unlock
              /\ x_sf' = [x_sf EXCEPT !.fd = -1]
              /\ x_requestcode' = REQUEST_NOTHING
              /\ waitP' = sfread_cond_signal(waitP)
              /\ pcC' = "done"
              /\ mutex' = "free"
              /\ sf' = sf
    /\ UNCHANGED <<x_state, x_filename, x_fileerror, x_onsetframes, x_fifosize,
                   x_fifohead, x_fifotail, x_eof, x_sigcountdown, x_sigperiod,
                   x_frameswritten, x_vecsize, x_buf, waitC, c, pcP, p, fs, obs>>

\* readsf_child_opened with a failed open that forgets to set x_eof
readsf_child_opened_noeof ==
    /\ pcC = "open_io_cs" /\ mutex = "child"
    /\ x_sf' = sf
    /\ IF sf.fd < 0
       THEN /\ x_fileerror' = c.errno
            /\ x_eof' = x_eof
            /\ pcC' = "lost"
            /\ UNCHANGED <<x_fifohead, x_fifosize, x_sigcountdown, x_sigperiod>>
       ELSE IF x_requestcode # REQUEST_BUSY
       THEN /\ pcC' = "lost"
            /\ UNCHANGED <<x_fileerror, x_eof, x_fifohead, x_fifosize,
                           x_sigcountdown, x_sigperiod>>
       ELSE /\ x_fifohead' = 0
            /\ x_fifosize' = FifoSizeFor(sf.bytesperframe)
            /\ x_sigperiod' = SigPeriodFor(x_fifosize', sf.bytesperframe, x_vecsize)
            /\ x_sigcountdown' = x_sigperiod'
            /\ pcC' = "fill"
            /\ UNCHANGED <<x_fileerror, x_eof>>
    /\ c' = NoLocalsC
    /\ UNCHANGED <<x_state, x_requestcode, x_filename, x_onsetframes, x_fifotail,
                   x_frameswritten, x_vecsize, x_buf, mutex, waitC, waitP, sf,
                   pcP, p, fs, obs>>

\* after open_soundfile_via_path: copy back, check the result, set up the fifo
readsf_child_opened ==
    /\ pcC = "open_io_cs" /\ mutex = "child"
    /\ x_sf' = sf
    /\ IF sf.fd < 0
       THEN /\ x_fileerror' = c.errno
            /\ x_eof' = 1
            /\ pcC' = "lost"
            /\ UNCHANGED <<x_fifohead, x_fifosize, x_sigcountdown, x_sigperiod>>
       ELSE IF x_requestcode # REQUEST_BUSY
       THEN /\ pcC' = "lost"
            /\ UNCHANGED <<x_fileerror, x_eof, x_fifohead, x_fifosize,
                           x_sigcountdown, x_sigperiod>>
       ELSE /\ x_fifohead' = 0
            /\ x_fifosize' = FifoSizeFor(sf.bytesperframe)
            /\ x_sigperiod' = SigPeriodFor(x_fifosize', sf.bytesperframe, x_vecsize)
            /\ x_sigcountdown' = x_sigperiod'
            /\ pcC' = "fill"
            /\ UNCHANGED <<x_fileerror, x_eof>>
    /\ c' = NoLocalsC
    /\ UNCHANGED <<x_state, x_requestcode, x_filename, x_onsetframes, x_fifotail,
                   x_frameswritten, x_vecsize, x_buf, mutex, waitC, waitP, sf,
                   pcP, p, fs, obs>>

\* the number of bytes the fill loop asks for; -1 when it has to wait
ReadWantBytes ==
    IF x_fifohead >= x_fifotail
    THEN IF x_fifotail # 0 \/ x_fifosize - x_fifohead > READSIZE
         THEN Min(Min(x_fifosize - x_fifohead, READSIZE), x_sf.bytelimit)
         ELSE -1
    ELSE IF x_fifotail - x_fifohead - 1 < READSIZE
         THEN -1
         ELSE Min(READSIZE, x_sf.bytelimit)

\* the pass of the fill loop that keeps the mutex while it reads
readsf_child_fill_locked ==
    /\ pcC = "fill" /\ mutex = "child"
    /\ IF x_requestcode # REQUEST_BUSY \/ x_eof # 0
       THEN /\ pcC' = "lost"
            /\ UNCHANGED <<mutex, waitC, waitP, sf, c>>
       ELSE IF ReadWantBytes < 0
       THEN /\ waitP' = sfread_cond_signal(waitP)
            /\ waitC' = "waiting"
            /\ mutex' = "free"
            /\ pcC' = "fill_wait"
            /\ UNCHANGED <<sf, c>>
       ELSE /\ sf' = [sf EXCEPT !.fd = x_sf.fd]
            /\ c' = [c EXCEPT !.wantbytes = ReadWantBytes, !.fifohead = x_fifohead]
            /\ mutex' = mutex
            /\ pcC' = "read_io"
            /\ UNCHANGED <<waitC, waitP>>
    /\ UNCHANGED <<xvars, pcP, p, fs, obs>>

\* one pass of the fill loop up to the unlock before the read, or the wait
readsf_child_fill ==
    /\ pcC = "fill" /\ mutex = "child"
    /\ IF x_requestcode # REQUEST_BUSY \/ x_eof # 0
       THEN /\ pcC' = "lost"
            /\ UNCHANGED <<mutex, waitC, waitP, sf, c>>
       ELSE IF ReadWantBytes < 0
       THEN /\ waitP' = sfread_cond_signal(waitP)
            /\ waitC' = "waiting"
            /\ mutex' = "free"
            /\ pcC' = "fill_wait"
            /\ UNCHANGED <<sf, c>>
       ELSE /\ sf' = [sf EXCEPT !.fd = x_sf.fd]
            /\ c' = [c EXCEPT !.wantbytes = ReadWantBytes, !.fifohead = x_fifohead]
            /\ mutex' = "free"
            /\ pcC' = "read_io"
            /\ UNCHANGED <<waitC, waitP>>
    /\ UNCHANGED <<xvars, pcP, p, fs, obs>>

\* sf.sf_type->t_readsamplesfn(&sf, buf + fifohead, wantbytes), mutex released:
\* read() returns n bytes (0 at the end of the file) or -1
readsamples(n) ==
    IF n < 0
    THEN /\ c' = [c EXCEPT !.bytesread = -1, !.errno = EIO]
         /\ UNCHANGED <<x_buf, fs>>
    ELSE /\ c' = [c EXCEPT !.bytesread = n]
         /\ x_buf' = [i \in DOMAIN x_buf |->
                        IF i >= c.fifohead /\ i < c.fifohead + n
                        THEN IF fs.name = x_filename
                             THEN fs.pos + (i - c.fifohead) ELSE -1
                        ELSE x_buf[i]]
         /\ fs' = [fs EXCEPT !.pos = @ + n]

readsf_child_read ==
    /\ pcC = "read_io"
    /\ \E n \in -1..c.wantbytes :
          /\ n >= 0 => sf.fd \in fs.fds
          /\ n > 0 => n <= fs.len - fs.pos
          /\ n = 0 => (c.wantbytes = 0 \/ fs.pos >= fs.len)
          /\ readsamples(n)
    /\ pcC' = "read_io_lock"
    /\ UNCHANGED <<x_state, x_requestcode, x_filename, x_fileerror, x_sf, x_onsetframes,
                   x_fifosize, x_fifohead, x_fifotail, x_eof, x_sigcountdown,
                   x_sigperiod, x_frameswritten, x_vecsize, mutex, waitC, waitP, sf,
                   pcP, p, obs>>

\* the commit that takes every short read for the end of the file
readsf_child_commit_shorteof ==
    /\ pcC = "read_cs" /\ mutex = "child"
    /\ IF x_requestcode # REQUEST_BUSY
       THEN /\ pcC' = "lost"
            /\ UNCHANGED <<x_fileerror, x_eof, x_fifohead, x_sf, waitP>>
       ELSE IF c.bytesread < 0
       THEN /\ x_fileerror' = c.errno
            /\ pcC' = "lost"
            /\ UNCHANGED <<x_eof, x_fifohead, x_sf, waitP>>
       ELSE IF c.bytesread = 0
       THEN /\ x_eof' = 1
            /\ pcC' = "lost"
            /\ UNCHANGED <<x_fileerror, x_fifohead, x_sf, waitP>>
       ELSE /\ x_fifohead' = IF x_fifohead + c.bytesread = x_fifosize
                             THEN 0 ELSE x_fifohead + c.bytesread
            /\ x_sf' = [x_sf EXCEPT !.bytelimit = @ - c.bytesread]
            /\ IF x_sf'.bytelimit <= 0 \/ c.bytesread < c.wantbytes
               THEN /\ x_eof' = 1
                    /\ pcC' = "lost"
                    /\ waitP' = waitP
               ELSE /\ waitP' = sfread_cond_signal(waitP)
                    /\ pcC' = "fill"
                    /\ x_eof' = x_eof
            /\ UNCHANGED x_fileerror
    /\ c' = NoLocalsC
    /\ UNCHANGED <<x_state, x_requestcode, x_filename, x_onsetframes, x_fifosize,
                   x_fifotail, x_sigcountdown, x_sigperiod, x_frameswritten,
                   x_vecsize, x_buf, mutex, waitC, sf, pcP, p, fs, obs>>

\* the commit that stores the read although the request has changed
readsf_child_commit_anyrequest ==
    /\ pcC = "read_cs" /\ mutex = "child"
    /\ IF c.bytesread < 0
       THEN /\ x_fileerror' = c.errno
            /\ pcC' = "lost"
            /\ UNCHANGED <<x_eof, x_fifohead, x_sf, waitP>>
       ELSE IF c.bytesread = 0
       THEN /\ x_eof' = 1
            /\ pcC' = "lost"
            /\ UNCHANGED <<x_fileerror, x_fifohead, x_sf, waitP>>
       ELSE /\ x_fifohead' = IF x_fifohead + c.bytesread = x_fifosize
                             THEN 0 ELSE x_fifohead + c.bytesread
            /\ x_sf' = [x_sf EXCEPT !.bytelimit = @ - c.bytesread]
            /\ IF x_sf'.bytelimit <= 0
               THEN /\ x_eof' = 1
                    /\ pcC' = "lost"
                    /\ waitP' = waitP
               ELSE /\ waitP' = sfread_cond_signal(waitP)
                    /\ pcC' = "fill"
                    /\ x_eof' = x_eof
            /\ UNCHANGED x_fileerror
    /\ c' = NoLocalsC
    /\ UNCHANGED <<x_state, x_requestcode, x_filename, x_onsetframes, x_fifosize,
                   x_fifotail, x_sigcountdown, x_sigperiod, x_frameswritten,
                   x_vecsize, x_buf, mutex, waitC, sf, pcP, p, fs, obs>>

\* the commit that leaves sf_bytelimit as it is
readsf_child_commit_nolimit ==
    /\ pcC = "read_cs" /\ mutex = "child"
    /\ IF x_requestcode # REQUEST_BUSY
       THEN /\ pcC' = "lost"
            /\ UNCHANGED <<x_fileerror, x_eof, x_fifohead, x_sf, waitP>>
       ELSE IF c.bytesread < 0
       THEN /\ x_fileerror' = c.errno
            /\ pcC' = "lost"
            /\ UNCHANGED <<x_eof, x_fifohead, x_sf, waitP>>
       ELSE IF c.bytesread = 0
       THEN /\ x_eof' = 1
            /\ pcC' = "lost"
            /\ UNCHANGED <<x_fileerror, x_fifohead, x_sf, waitP>>
       ELSE /\ x_fifohead' = IF x_fifohead + c.bytesread = x_fifosize
                             THEN 0 ELSE x_fifohead + c.bytesread
            /\ x_sf' = x_sf
            /\ IF x_sf'.bytelimit <= 0
               THEN /\ x_eof' = 1
                    /\ pcC' = "lost"
                    /\ waitP' = waitP
               ELSE /\ waitP' = sfread_cond_signal(waitP)
                    /\ pcC' = "fill"
                    /\ x_eof' = x_eof
            /\ UNCHANGED x_fileerror
    /\ c' = NoLocalsC
    /\ UNCHANGED <<x_state, x_requestcode, x_filename, x_onsetframes, x_fifosize,
                   x_fifotail, x_sigcountdown, x_sigperiod, x_frameswritten,
                   x_vecsize, x_buf, mutex, waitC, sf, pcP, p, fs, obs>>

\* after the read: commit it unless the request changed meanwhile
readsf_child_commit ==
    /\ pcC = "read_cs" /\ mutex = "child"
    /\ IF x_requestcode # REQUEST_BUSY
       THEN /\ pcC' = "lost"
            /\ UNCHANGED <<x_fileerror, x_eof, x_fifohead, x_sf, waitP>>
       ELSE IF c.bytesread < 0
       THEN /\ x_fileerror' = c.errno
            /\ pcC' = "lost"
            /\ UNCHANGED <<x_eof, x_fifohead, x_sf, waitP>>
       ELSE IF c.bytesread = 0
       THEN /\ x_eof' = 1
            /\ pcC' = "lost"
            /\ UNCHANGED <<x_fileerror, x_fifohead, x_sf, waitP>>
       ELSE /\ x_fifohead' = IF x_fifohead + c.bytesread = x_fifosize
                             THEN 0 ELSE x_fifohead + c.bytesread
            /\ x_sf' = [x_sf EXCEPT !.bytelimit = @ - c.bytesread]
            /\ IF x_sf'.bytelimit <= 0
               THEN /\ x_eof' = 1
                    /\ pcC' = "lost"
                    /\ waitP' = waitP
               ELSE /\ waitP' = sfread_cond_signal(waitP)
                    /\ pcC' = "fill"
                    /\ x_eof' = x_eof
            /\ UNCHANGED x_fileerror
    /\ c' = NoLocalsC
    /\ UNCHANGED <<x_state, x_requestcode, x_filename, x_onsetframes, x_fifosize,
                   x_fifotail, x_sigcountdown, x_sigperiod, x_frameswritten,
                   x_vecsize, x_buf, mutex, waitC, sf, pcP, p, fs, obs>>

\* readsf_child_lost that goes back to the top without closing the file
readsf_child_lost_noclose ==
    /\ pcC = "lost" /\ mutex = "child"
    /\ x_requestcode' = IF x_requestcode = REQUEST_BUSY
                        THEN REQUEST_NOTHING ELSE x_requestcode
    /\ waitP' = sfread_cond_signal(waitP)
    /\ pcC' = "top"
    /\ UNCHANGED <<x_state, x_filename, x_fileerror, x_sf, x_onsetframes, x_fifosize,
                   x_fifohead, x_fifotail, x_eof, x_sigcountdown, x_sigperiod,
                   x_frameswritten, x_vecsize, x_buf, mutex, waitC, sf, c, pcP, p,
                   fs, obs>>

\* lost: request back to NOTHING if still BUSY; close the file if it is open
readsf_child_lost ==
    /\ pcC = "lost" /\ mutex = "child"
    /\ x_requestcode' = IF x_requestcode = REQUEST_BUSY
                        THEN REQUEST_NOTHING ELSE x_requestcode
    /\ IF sf.fd >= 0
       THEN /\ mutex' = "free"
            /\ pcC' = "lost_close"
            /\ waitP' = waitP
       ELSE /\ waitP' = sfread_cond_signal(waitP)
            /\ pcC' = "top"
            /\ mutex' = mutex
    /\ UNCHANGED <<x_state, x_filename, x_fileerror, x_sf, x_onsetframes, x_fifosize,
                   x_fifohead, x_fifotail, x_eof, x_sigcountdown, x_sigperiod,
                   x_frameswritten, x_vecsize, x_buf, waitC, sf, c, pcP, p, fs, obs>>

\* readsf_child_close that leaves the request code alone when it quits
readsf_child_close_keepquit ==
    /\ pcC = "top" /\ mutex = "child"
    /\ x_requestcode \in {REQUEST_CLOSE, REQUEST_QUIT}
    /\ IF sf.fd >= 0
       THEN /\ mutex' = "free"
            /\ pcC' = IF x_requestcode = REQUEST_CLOSE
                      THEN "close_close" ELSE "quit_close"
            /\ UNCHANGED <<x_requestcode, waitP>>
       ELSE /\ x_requestcode' = IF x_requestcode = REQUEST_CLOSE
                               THEN REQUEST_NOTHING ELSE x_requestcode
            /\ waitP' = sfread_cond_signal(waitP)
            /\ IF x_requestcode = REQUEST_CLOSE
               THEN pcC' = "top" /\ mutex' = mutex
               ELSE pcC' = "done" /\ mutex' = "free"
    /\ UNCHANGED <<x_state, x_filename, x_fileerror, x_sf, x_onsetframes, x_fifosize,
                   x_fifohead, x_fifotail, x_eof, x_sigcountdown, x_sigperiod,
                   x_frameswritten, x_vecsize, x_buf, waitC, sf, c, pcP, p, fs, obs>>

\* REQUEST_CLOSE and REQUEST_QUIT up to the unlock before the close, or, with
\* no file open, to the end of the branch
readsf_child_close ==
    /\ pcC = "top" /\ mutex = "child"
    /\ x_requestcode \in {REQUEST_CLOSE, REQUEST_QUIT}
    /\ IF sf.fd >= 0
       THEN /\ mutex' = "free"
            /\ pcC' = IF x_requestcode = REQUEST_CLOSE
                      THEN "close_close" ELSE "quit_close"
            /\ UNCHANGED <<x_requestcode, waitP>>
       ELSE /\ x_requestcode' = REQUEST_NOTHING
            /\ waitP' = sfread_cond_signal(waitP)
            /\ IF x_requestcode = REQUEST_CLOSE
               THEN pcC' = "top" /\ mutex' = mutex
               ELSE pcC' = "done" /\ mutex' = "free"
    /\ UNCHANGED <<x_state, x_filename, x_fileerror, x_sf, x_onsetframes, x_fifosize,
                   x_fifohead, x_fifotail, x_eof, x_sigcountdown, x_sigperiod,
                   x_frameswritten, x_vecsize, x_buf, waitC, sf, c, pcP, p, fs, obs>>

(***************************************************************************)
(*                 readsf~ : the parent thread                             *)
(***************************************************************************)

\* pthread_mutex_lock in a method or in the perform routine
ParentRelock ==
    [open_lock |-> "open_cs", stop_lock |-> "stop_cs", perf_lock |-> "perf_cs",
     free_lock |-> "free_cs",
     wopen_stop_lock |-> "wopen_stop_cs", wopen_lock |-> "wopen_cs",
     wperf_lock |-> "wperf_cs", wusage_stop_lock |-> "wusage_stop_cs"]

parent_lock ==
    /\ pcP \in DOMAIN ParentRelock
    /\ mutex = "free"
    /\ mutex' = "parent"
    /\ pcP' = ParentRelock[pcP]
    /\ UNCHANGED <<xvars, waitC, waitP, pcC, sf, c, p, fs, obs>>

\* return from sfread_cond_wait(&x->x_answercondition, &x->x_mutex); the
\* reader's perform routine then resyncs its local vecsize and sf
parent_wake ==
    /\ pcP \in {"perf_wait", "free_wait", "wperf_wait", "wopen_wait"}
    /\ waitP = "signaled"
    /\ mutex = "free"
    /\ mutex' = "parent"
    /\ waitP' = "no"
    /\ IF pcP = "perf_wait"
       THEN /\ pcP' = "perf_cs"
            /\ p' = [p EXCEPT !.vecsize = x_vecsize, !.bpf = x_sf.bytesperframe]
       ELSE /\ pcP' = CASE pcP = "free_wait" -> "free_loop"
                        [] pcP = "wperf_wait" -> "wperf_cs"
                        [] OTHER -> "wopen_cs"
            /\ p' = p
    /\ UNCHANGED <<xvars, waitC, pcC, sf, c, fs, obs>>

\* pthread_cond_wait may return without a signal
spurious_wakeup ==
    /\ \/ waitC = "waiting" /\ waitC' = "signaled" /\ waitP' = waitP
       \/ waitP = "waiting" /\ waitP' = "signaled" /\ waitC' = waitC
    /\ UNCHANGED <<xvars, mutex, pcC, sf, c, pcP, p, fs, obs>>

\* the "open" message arrives (valid flags, a filename) and asks for the mutex
readsf_open_msg ==
    /\ pcP = "idle"
    /\ obs.ops < MaxOps
    /\ x_filename < MaxOpens
    /\ \E args \in OpenArgs : p' = [p EXCEPT !.args = args]
    /\ obs' = [obs EXCEPT !.ops = @ + 1, !.out = "none", !.xfer = 0]
    /\ pcP' = "open_lock"
    /\ UNCHANGED <<xvars, mutex, waitC, waitP, pcC, sf, c, fs>>

\* the "open" message arrives with an unknown flag (goto usage) or without a
\* filename (return): readsf_open returns before it takes the mutex
readsf_open_usage ==
    /\ pcP = "idle"
    /\ \E e \in {"flag", "nofile"} :
          obs' = [obs EXCEPT !.out = IF e = "flag" THEN "usage" ELSE "none",
                             !.xfer = 0]
    /\ UNCHANGED <<xvars, mutex, waitC, waitP, pcC, sf, c, pcP, p, fs>>

\* the sample format and type readsf_open stores in x_sf for its arguments
\* (sys_isbigendian() is 0 on the host)
OpenInfo(s, a) ==
    LET headersize == IF a.headersize > 0 THEN a.headersize
                      ELSE IF a.headersize = 0 THEN -1 ELSE 0
        nchannels == IF a.nchannels >= 1 THEN a.nchannels ELSE 1
        bytespersample == IF a.bytespersample > 2 THEN a.bytespersample ELSE 2
    IN [soundfile_clearinfo(s) EXCEPT
          !.bigendian = IF a.endian = "b" THEN 1 ELSE 0,
          !.headersize = headersize,
          !.nchannels = nchannels,
          !.bytespersample = bytespersample,
          !.bytesperframe = nchannels * bytespersample,
          !.type = IF a.type # "none" /\ headersize >= 0 THEN "none" ELSE a.type]

\* readsf_open that leaves the end-of-file flag of the previous stream
readsf_open_keepeof ==
    /\ pcP = "open_cs" /\ mutex = "parent"
    /\ x_sf' = OpenInfo(x_sf, p.args)
    /\ x_requestcode' = REQUEST_OPEN
    /\ x_filename' = x_filename + 1
    /\ x_fifotail' = 0
    /\ x_fifohead' = 0
    /\ x_onsetframes' = IF p.args.onset > 0 THEN p.args.onset ELSE 0
    /\ x_eof' = x_eof
    /\ x_fileerror' = 0
    /\ x_state' = STATE_STARTUP
    /\ waitC' = sfread_cond_signal(waitC)
    /\ mutex' = "free"
    /\ pcP' = "idle"
    /\ obs' = [obs EXCEPT !.decoded = 0, !.err = 0, !.nbang = 0, !.args = p.args]
    /\ p' = NoLocalsP
    /\ x_buf' = [i \in DOMAIN x_buf |-> -1]
    /\ UNCHANGED <<x_fifosize, x_sigcountdown, x_sigperiod, x_frameswritten,
                   x_vecsize, waitP, pcC, sf, c, fs>>

\* readsf_open between lock and unlock
readsf_open ==
    /\ pcP = "open_cs" /\ mutex = "parent"
    /\ x_sf' = OpenInfo(x_sf, p.args)
    /\ x_requestcode' = REQUEST_OPEN
    /\ x_filename' = x_filename + 1
    /\ x_fifotail' = 0
    /\ x_fifohead' = 0
    /\ x_onsetframes' = IF p.args.onset > 0 THEN p.args.onset ELSE 0
    /\ x_eof' = 0
    /\ x_fileerror' = 0
    /\ x_state' = STATE_STARTUP
    /\ waitC' = sfread_cond_signal(waitC)
    /\ mutex' = "free"
    /\ pcP' = "idle"
    /\ obs' = [obs EXCEPT !.decoded = 0, !.err = 0, !.nbang = 0, !.args = p.args]
    /\ p' = NoLocalsP
    /\ x_buf' = [i \in DOMAIN x_buf |-> -1]
    /\ UNCHANGED <<x_fifosize, x_sigcountdown, x_sigperiod, x_frameswritten,
                   x_vecsize, waitP, pcC, sf, c, fs>>

\* readsf_start that starts the stream whatever the state is
readsf_start_always ==
    /\ pcP = "idle"
    /\ obs.ops < MaxOps
    /\ x_state' = STATE_STREAM
    /\ obs' = [obs EXCEPT !.ops = @ + 1, !.out = "none", !.xfer = 0]
    /\ UNCHANGED <<x_requestcode, x_filename, x_fileerror, x_sf, x_onsetframes,
                   x_fifosize, x_fifohead, x_fifotail, x_eof, x_sigcountdown,
                   x_sigperiod, x_frameswritten, x_vecsize, x_buf, mutex, waitC,
                   waitP, pcC, sf, c, pcP, p, fs>>

\* readsf_start
readsf_start ==
    /\ pcP = "idle"
    /\ obs.ops < MaxOps
    /\ x_state' = IF x_state = STATE_STARTUP THEN STATE_STREAM ELSE x_state
    /\ obs' = [obs EXCEPT !.ops = @ + 1,
                          !.out = IF x_state = STATE_STARTUP THEN "none" ELSE "error",
                          !.xfer = 0]
    /\ UNCHANGED <<x_requestcode, x_filename, x_fileerror, x_sf, x_onsetframes,
                   x_fifosize, x_fifohead, x_fifotail, x_eof, x_sigcountdown,
                   x_sigperiod, x_frameswritten, x_vecsize, x_buf, mutex, waitC,
                   waitP, pcC, sf, c, pcP, p, fs>>

\* the "stop" message arrives and asks for the mutex
readsf_stop_msg ==
    /\ pcP = "idle"
    /\ obs.ops < MaxOps
    /\ obs' = [obs EXCEPT !.ops = @ + 1, !.out = "none", !.xfer = 0]
    /\ pcP' = "stop_lock"
    /\ UNCHANGED <<xvars, mutex, waitC, waitP, pcC, sf, c, p, fs>>

\* readsf_stop that also schedules the done bang
readsf_stop_bang ==
    /\ pcP = "stop_cs" /\ mutex = "parent"
    /\ x_state' = STATE_IDLE
    /\ x_requestcode' = REQUEST_CLOSE
    /\ obs' = [obs EXCEPT !.nbang = @ + 1]
    /\ waitC' = sfread_cond_signal(waitC)
    /\ mutex' = "free"
    /\ pcP' = "idle"
    /\ UNCHANGED <<x_filename, x_fileerror, x_sf, x_onsetframes, x_fifosize,
                   x_fifohead, x_fifotail, x_eof, x_sigcountdown, x_sigperiod,
                   x_frameswritten, x_vecsize, x_buf, waitP, pcC, sf, c, p, fs>>

\* readsf_stop between lock and unlock
readsf_stop ==
    /\ pcP = "stop_cs" /\ mutex = "parent"
    /\ x_state' = STATE_IDLE
    /\ x_requestcode' = REQUEST_CLOSE
    /\ waitC' = sfread_cond_signal(waitC)
    /\ mutex' = "free"
    /\ pcP' = "idle"
    /\ UNCHANGED <<x_filename, x_fileerror, x_sf, x_onsetframes, x_fifosize,
                   x_fifohead, x_fifotail, x_eof, x_sigcountdown, x_sigperiod,
                   x_frameswritten, x_vecsize, x_buf, waitP, pcC, sf, c, p, fs, obs>>

\* readsf_perform_call that leaves the output vectors as they are when no
\* stream is running
readsf_perform_call_nozero ==
    /\ pcP = "idle"
    /\ IF x_state = STATE_STREAM
       THEN /\ pcP' = "perf_lock"
            /\ p' = [p EXCEPT !.vecsize = x_vecsize, !.bpf = x_sf.bytesperframe]
            /\ obs' = [obs EXCEPT !.out = "none", !.xfer = 0]
       ELSE /\ pcP' = "idle"
            /\ p' = p
            /\ obs' = [obs EXCEPT !.out = "none", !.xfer = 0]
    /\ UNCHANGED <<xvars, mutex, waitC, waitP, pcC, sf, c, fs>>

\* readsf_perform is called: it copies vecsize and x_sf, and with no stream
\* running it zeroes its outputs and returns
readsf_perform_call ==
    /\ pcP = "idle"
    /\ IF x_state = STATE_STREAM
       THEN /\ pcP' = "perf_lock"
            /\ p' = [p EXCEPT !.vecsize = x_vecsize, !.bpf = x_sf.bytesperframe]
            /\ obs' = [obs EXCEPT !.out = "none", !.xfer = 0]
       ELSE /\ pcP' = "idle"
            /\ p' = p
            /\ obs' = [obs EXCEPT !.out = "zero", !.xfer = 0]
    /\ UNCHANGED <<xvars, mutex, waitC, waitP, pcC, sf, c, fs>>

\* the loop condition of readsf_perform: fewer than wantbytes - 1 bytes
\* between tail and head
PerformStarved(wantbytes) ==
    /\ x_fifohead >= x_fifotail
    /\ x_fifohead < x_fifotail + wantbytes - 1

\* TRUE iff the n bytes at tail are the next n bytes of the file the last
\* open named, decoded with the file's frame size
DecodesNext(n) ==
    /\ p.bpf = x_sf.bytesperframe
    /\ \A k \in 0..(n - 1) :
          /\ x_fifotail + k < x_bufsize
          /\ x_buf[x_fifotail + k] = x_onsetframes * p.bpf + obs.decoded + k

\* readsf_perform with the mutex held: wait for data, or make the EOF
\* transition, or decode one block
readsf_perform ==
    /\ pcP = "perf_cs" /\ mutex = "parent"
    /\ LET wantbytes == p.vecsize * p.bpf
           xfersize == (x_fifohead - x_fifotail + 1) \div p.bpf
       IN
       IF x_eof = 0 /\ PerformStarved(wantbytes)
       THEN /\ waitC' = sfread_cond_signal(waitC)
            /\ waitP' = "waiting"
            /\ mutex' = "free"
            /\ pcP' = "perf_wait"
            /\ UNCHANGED <<x_state, x_fifotail, x_sigcountdown, obs, p>>
       ELSE IF x_eof # 0 /\ PerformStarved(wantbytes)
       THEN /\ x_state' = STATE_IDLE
            /\ obs' = [obs EXCEPT
                         !.err = IF x_fileerror # 0 THEN x_fileerror ELSE @,
                         !.nbang = @ + 1,
                         !.out = IF xfersize = 0 THEN "zero" ELSE "partial",
                         !.xfer = xfersize]
            /\ waitC' = sfread_cond_signal(waitC)
            /\ mutex' = "free"
            /\ pcP' = "idle"
            /\ p' = NoLocalsP
            /\ UNCHANGED <<x_fifotail, x_sigcountdown, waitP>>
       ELSE /\ obs' = [obs EXCEPT !.ok = @ /\ DecodesNext(wantbytes),
                                  !.decoded = IF obs.ok /\ DecodesNext(wantbytes)
                                              THEN @ + wantbytes ELSE 0,
                                  !.out = "block", !.xfer = 0]
            /\ x_fifotail' = IF x_fifotail + wantbytes >= x_fifosize
                             THEN 0 ELSE x_fifotail + wantbytes
            /\ IF x_sigcountdown - 1 <= 0
               THEN /\ waitC' = sfread_cond_signal(waitC)
                    /\ x_sigcountdown' = x_sigperiod
               ELSE /\ waitC' = waitC
                    /\ x_sigcountdown' = x_sigcountdown - 1
            /\ mutex' = "free"
            /\ pcP' = "idle"
            /\ p' = NoLocalsP
            /\ UNCHANGED <<x_state, waitP>>
    /\ UNCHANGED <<x_requestcode, x_filename, x_fileerror, x_sf, x_onsetframes,
                   x_fifosize, x_fifohead, x_eof, x_sigperiod, x_frameswritten,
                   x_vecsize, x_buf, pcC, sf, c, fs>>

\* the object is freed: readsf_free asks for the mutex
readsf_free_msg ==
    /\ pcP = "idle"
    /\ pcP' = "free_lock"
    /\ obs' = [obs EXCEPT !.out = "none", !.xfer = 0]
    /\ UNCHANGED <<xvars, mutex, waitC, waitP, pcC, sf, c, p, fs>>

\* readsf_free with the mutex held: post QUIT, then wait on the answer
\* condition until the request code is NOTHING
readsf_free ==
    /\ pcP \in {"free_cs", "free_loop"} /\ mutex = "parent"
    /\ x_requestcode' = IF pcP = "free_cs" THEN REQUEST_QUIT ELSE x_requestcode
    /\ IF x_requestcode' # REQUEST_NOTHING
       THEN /\ waitC' = sfread_cond_signal(waitC)
            /\ waitP' = "waiting"
            /\ pcP' = "free_wait"
       ELSE /\ pcP' = "free_join"
            /\ UNCHANGED <<waitC, waitP>>
    /\ mutex' = "free"
    /\ UNCHANGED <<x_state, x_filename, x_fileerror, x_sf, x_onsetframes, x_fifosize,
                   x_fifohead, x_fifotail, x_eof, x_sigcountdown, x_sigperiod,
                   x_frameswritten, x_vecsize, x_buf, pcC, sf, c, p, fs, obs>>

\* pthread_join returns once the child has left readsf_child_main
readsf_free_join ==
    /\ pcP = "free_join"
    /\ pcC = "done"
    /\ pcP' = "freed"
    /\ UNCHANGED <<xvars, mutex, waitC, waitP, pcC, sf, c, p, fs, obs>>

ReaderChild ==
    \/ child_lock
    \/ child_wake
    \/ readsf_child_nothing
    \/ readsf_child_open
    \/ readsf_child_closefn
    \/ readsf_child_closed
    \/ readsf_child_openfile
    \/ readsf_child_opened
    \/ readsf_child_fill
    \/ readsf_child_read
    \/ readsf_child_commit
    \/ readsf_child_lost
    \/ readsf_child_close

ReaderParent ==
    \/ parent_lock
    \/ parent_wake
    \/ readsf_open_msg
    \/ readsf_open_usage
    \/ readsf_open
    \/ readsf_start
    \/ readsf_stop_msg
    \/ readsf_stop
    \/ readsf_perform_call
    \/ readsf_perform
    \/ readsf_free_msg
    \/ readsf_free
    \/ readsf_free_join

NextR == ReaderChild \/ ReaderParent \/ spurious_wakeup

Spec == Init /\ [][NextR]_vars

(***************************************************************************)
(*                     writesf~ : the child thread                         *)
(***************************************************************************)

\* the byte at buf + i; outside the buffer it is whatever memory holds there
BufAt(i) == IF i \in DOMAIN x_buf THEN x_buf[i] ELSE -1

\* conversion of a signed value to size_t (the usual arithmetic conversions
\* of "byteswritten < writebytes" and "roominfifo < wantbytes + 1")
ToSizeT(n) == IF n < 0 THEN n + SIZE_RANGE ELSE n

\* integer division of C: the quotient is truncated toward zero
CDiv(a, b) == IF a < 0 THEN -((-a) \div b) ELSE a \div b

\* REQUEST_NOTHING: signal the parent and wait; with any code the loop does
\* not know (REQUEST_BUSY) the final else goes round the loop, mutex held
writesf_child_nothing ==
    /\ pcC = "top" /\ mutex = "child"
    /\ x_requestcode \notin {REQUEST_OPEN, REQUEST_CLOSE, REQUEST_QUIT}
    /\ IF x_requestcode = REQUEST_NOTHING
       THEN /\ waitP' = sfread_cond_signal(waitP)
            /\ waitC' = "waiting"
            /\ mutex' = "free"
            /\ pcC' = "top_wait"
       ELSE UNCHANGED <<waitP, waitC, mutex, pcC>>
    /\ UNCHANGED <<xvars, sf, c, pcP, p, fs, obs>>

\* REQUEST_OPEN up to the first unlock
writesf_child_open ==
    /\ pcC = "top" /\ mutex = "child"
    /\ x_requestcode = REQUEST_OPEN
    /\ sf' = x_sf
    /\ x_requestcode' = REQUEST_BUSY
    /\ x_fileerror' = 0
    /\ IF x_sf.fd >= 0
       THEN /\ c' = [NoLocalsC EXCEPT !.filename = x_filename,
                                      !.frameswritten = x_frameswritten]
            /\ pcC' = "wopen_finish"
       ELSE /\ c' = [NoLocalsC EXCEPT !.filename = x_filename]
            /\ pcC' = "create_io"
    /\ mutex' = "free"
    /\ UNCHANGED <<x_state, x_filename, x_sf, x_onsetframes, x_fifosize, x_fifohead,
                   x_fifotail, x_eof, x_sigcountdown, x_sigperiod, x_frameswritten,
                   x_vecsize, x_buf, waitC, waitP, pcP, p, fs, obs>>

\* soundfile_finishwrite(x, filename, &sf, SFMAXFRAMES, frameswritten): the
\* frame count the header holds afterwards
soundfile_finishwrite(header, frameswritten) ==
    IF frameswritten >= SFMAXFRAMES THEN header ELSE frameswritten

\* soundfile_finishwrite and t_closefn(&sf) with the mutex released (the
\* OPEN branch and the CLOSE/QUIT branch)
writesf_child_finish ==
    /\ pcC \in {"wopen_finish", "wclose_finish"}
    /\ obs' = [obs EXCEPT !.header = soundfile_finishwrite(@, c.frameswritten)]
    /\ fs' = CloseFd(fs, sf.fd)
    /\ sf' = soundfile_type_close(sf)
    /\ pcC' = IF pcC = "wopen_finish" THEN "wopen_finish_lock"
              ELSE "wclose_finish_lock"
    /\ UNCHANGED <<xvars, mutex, waitC, waitP, c, pcP, p>>

\* after finish and close, mutex taken again
writesf_child_finished ==
    /\ pcC \in {"wopen_finish_cs", "wclose_finish_cs"}
    /\ mutex = "child"
    /\ x_sf' = [x_sf EXCEPT !.fd = -1]
    /\ IF pcC = "wopen_finish_cs"
       THEN \* if (x->x_requestcode != REQUEST_BUSY) continue; else unlock
            /\ IF x_requestcode # REQUEST_BUSY
               THEN pcC' = "top" /\ mutex' = mutex
               ELSE pcC' = "create_io" /\ mutex' = "free"
            /\ UNCHANGED <<x_requestcode, waitP, c>>
       ELSE \* x->x_requestcode = REQUEST_NOTHING; signal; if (quit) break;
            /\ x_requestcode' = REQUEST_NOTHING
            /\ waitP' = sfread_cond_signal(waitP)
            /\ IF c.quit
               THEN pcC' = "done" /\ mutex' = "free"
               ELSE pcC' = "top" /\ mutex' = mutex
            /\ c' = NoLocalsC
    /\ UNCHANGED <<x_state, x_filename, x_fileerror, x_onsetframes, x_fifosize,
                   x_fifohead, x_fifotail, x_eof, x_sigcountdown, x_sigperiod,
                   x_frameswritten, x_vecsize, x_buf, waitC, sf, pcP, p, fs, obs>>

\* create_soundfile(canvas, filename, &sf, 0): it creates the file and writes
\* the header (sf_fd set), or fails (sf_fd stays -1, errno set)
create_soundfile(ok) ==
    IF ok
    THEN /\ sf' = [x_sf EXCEPT !.fd = c.filename]
         /\ fs' = [fs EXCEPT !.fds = @ \cup {c.filename}, !.name = c.filename]
         /\ c' = c
    ELSE /\ sf' = x_sf
         /\ c' = [c EXCEPT !.errno = EIO]
         /\ fs' = fs

\* soundfile_copy(&sf, &x->x_sf); create_soundfile(...): mutex released
writesf_child_create ==
    /\ pcC = "create_io"
    /\ \E ok \in BOOLEAN : create_soundfile(ok)
    /\ pcC' = "create_lock"
    /\ UNCHANGED <<xvars, mutex, waitC, waitP, pcP, p, obs>>

\* after create_soundfile: failure, or another request, or start draining
writesf_child_created ==
    /\ pcC = "create_cs" /\ mutex = "child"
    /\ IF sf.fd < 0
       THEN /\ x_sf' = [x_sf EXCEPT !.fd = -1]
            /\ x_eof' = 1
            /\ x_fileerror' = c.errno
            /\ x_requestcode' = REQUEST_NOTHING
            /\ pcC' = "top"
            /\ UNCHANGED <<x_fifotail, x_frameswritten>>
       ELSE IF x_requestcode # REQUEST_BUSY
       THEN /\ pcC' = "top"
            /\ UNCHANGED <<x_sf, x_eof, x_fileerror, x_requestcode, x_fifotail,
                           x_frameswritten>>
       ELSE /\ x_sf' = sf
            /\ x_fifotail' = 0
            /\ x_frameswritten' = 0
            /\ pcC' = "drain"
            /\ UNCHANGED <<x_eof, x_fileerror, x_requestcode>>
    /\ c' = NoLocalsC
    /\ UNCHANGED <<x_state, x_filename, x_onsetframes, x_fifosize, x_fifohead,
                   x_sigcountdown, x_sigperiod, x_vecsize, x_buf, mutex, waitC,
                   waitP, sf, pcP, p, fs, obs>>

\* the condition of the drain loop
DrainLoop ==
    \/ x_requestcode = REQUEST_BUSY
    \/ x_requestcode = REQUEST_CLOSE /\ x_fifohead # x_fifotail

\* the drain loop's test for data worth writing
DrainReady ==
    \/ x_fifohead < x_fifotail
    \/ x_fifohead >= x_fifotail + WRITESIZE
    \/ x_requestcode = REQUEST_CLOSE /\ x_fifohead # x_fifotail

\* WriteBytes that takes the end of the fifo, not the head, as the limit
WriteBytes_toend == Min(ToSizeT(x_fifosize - x_fifotail), READSIZE)

\* the number of bytes of one write
WriteBytes ==
    Min(ToSizeT((IF x_fifohead < x_fifotail THEN x_fifosize ELSE x_fifohead)
                - x_fifotail), READSIZE)

\* one pass of the drain loop up to the unlock before the write, or the wait
writesf_child_drain ==
    /\ pcC = "drain" /\ mutex = "child"
    /\ IF ~DrainLoop
       THEN /\ pcC' = "top"
            /\ UNCHANGED <<mutex, waitC, waitP, sf, c>>
       ELSE IF DrainReady
       THEN /\ c' = [c EXCEPT !.writebytes = WriteBytes, !.fifotail = x_fifotail]
            /\ sf' = x_sf
            /\ mutex' = "free"
            /\ pcC' = "write_io"
            /\ UNCHANGED <<waitC, waitP>>
       ELSE /\ waitP' = sfread_cond_signal(waitP)
            /\ waitC' = "waiting"
            /\ mutex' = "free"
            /\ pcC' = "drain_wait"
            /\ UNCHANGED <<sf, c>>
    /\ UNCHANGED <<xvars, pcP, p, fs, obs>>

\* TRUE iff the n bytes at buf + fifotail are the bytes the perform routine
\* encoded right after those the file already holds
WritesNext(n) == \A k \in 0..(n - 1) : BufAt(c.fifotail + k) = obs.handed + k

\* sf.sf_type->t_writesamplesfn(&sf, buf + fifotail, writebytes), mutex
\* released: write() puts n bytes into the file, or returns -1
writesamples(n) ==
    /\ c' = [c EXCEPT !.byteswritten = n,
                      !.errno = IF n < c.writebytes THEN EIO ELSE @]
    /\ obs' = [obs EXCEPT !.wok = @ /\ WritesNext(c.writebytes),
                          !.handed = @ + Max(n, 0),
                          !.nioerr = IF n < c.writebytes THEN @ + 1 ELSE @]

writesf_child_write ==
    /\ pcC = "write_io"
    /\ \E n \in -1..c.writebytes :
          /\ n < c.writebytes => obs.nioerr < MaxIoErrs
          /\ writesamples(n)
    /\ pcC' = "write_lock"
    /\ UNCHANGED <<xvars, mutex, waitC, waitP, sf, pcP, p, fs>>

\* after the write: give up if the request changed or the write fell short,
\* else advance the tail and count the frames
writesf_child_written ==
    /\ pcC = "write_cs" /\ mutex = "child"
    /\ IF x_requestcode # REQUEST_BUSY /\ x_requestcode # REQUEST_CLOSE
       THEN /\ pcC' = "top"
            /\ UNCHANGED <<x_fileerror, x_fifotail, x_frameswritten, waitP>>
       ELSE IF ToSizeT(c.byteswritten) < c.writebytes
       THEN /\ x_fileerror' = c.errno
            /\ pcC' = "top"
            /\ UNCHANGED <<x_fifotail, x_frameswritten, waitP>>
       ELSE /\ x_fifotail' = IF x_fifotail + c.byteswritten = x_fifosize
                             THEN 0 ELSE x_fifotail + c.byteswritten
            /\ x_frameswritten' = x_frameswritten
                                  + CDiv(c.byteswritten, x_sf.bytesperframe)
            /\ waitP' = sfread_cond_signal(waitP)
            /\ pcC' = "drain"
            /\ UNCHANGED x_fileerror
    /\ c' = NoLocalsC
    /\ UNCHANGED <<x_state, x_requestcode, x_filename, x_sf, x_onsetframes,
                   x_fifosize, x_fifohead, x_eof, x_sigcountdown, x_sigperiod,
                   x_vecsize, x_buf, mutex, waitC, sf, pcP, p, fs, obs>>

\* REQUEST_CLOSE and REQUEST_QUIT up to the unlock before the finish, or,
\* with no file open, to the end of the branch
writesf_child_close ==
    /\ pcC = "top" /\ mutex = "child"
    /\ x_requestcode \in {REQUEST_CLOSE, REQUEST_QUIT}
    /\ IF x_sf.fd >= 0
       THEN /\ c' = [NoLocalsC EXCEPT !.quit = (x_requestcode = REQUEST_QUIT),
                                      !.filename = x_filename,
                                      !.frameswritten = x_frameswritten]
            /\ sf' = x_sf
            /\ mutex' = "free"
            /\ pcC' = "wclose_finish"
            /\ UNCHANGED <<x_requestcode, waitP>>
       ELSE /\ x_requestcode' = REQUEST_NOTHING
            /\ waitP' = sfread_cond_signal(waitP)
            /\ IF x_requestcode = REQUEST_QUIT
               THEN pcC' = "done" /\ mutex' = "free"
               ELSE pcC' = "top" /\ mutex' = mutex
            /\ UNCHANGED <<sf, c>>
    /\ UNCHANGED <<x_state, x_filename, x_fileerror, x_sf, x_onsetframes, x_fifosize,
                   x_fifohead, x_fifotail, x_eof, x_sigcountdown, x_sigperiod,
                   x_frameswritten, x_vecsize, x_buf, waitC, pcP, p, fs, obs>>

(***************************************************************************)
(*                    writesf~ : the parent thread                         *)
(***************************************************************************)

\* the "open" message arrives (valid flags, a filename): writesf_open calls
\* writesf_stop unless the state is IDLE, then asks for the mutex
writesf_open_msg ==
    /\ pcP = "idle"
    /\ obs.ops < MaxOpsW
    /\ \E bps \in BytesPerSample : p' = [p EXCEPT !.bps = bps]
    /\ obs' = [obs EXCEPT !.ops = @ + 1, !.out = "none"]
    /\ pcP' = IF x_state # STATE_IDLE THEN "wopen_stop_lock" ELSE "wopen_lock"
    /\ UNCHANGED <<xvars, mutex, waitC, waitP, pcC, sf, c, fs>>

\* the "open" message arrives with arguments soundfiler_parsewriteargs
\* rejects: writesf_open calls writesf_stop unless the state is IDLE, then
\* prints the usage lines and returns
writesf_open_usage ==
    /\ pcP = "idle"
    /\ IF x_state # STATE_IDLE
       THEN /\ obs.ops < MaxOpsW
            /\ obs' = [obs EXCEPT !.ops = @ + 1, !.out = "none"]
            /\ pcP' = "wusage_stop_lock"
       ELSE /\ obs' = [obs EXCEPT !.out = "usage"]
            /\ pcP' = "idle"
    /\ UNCHANGED <<xvars, mutex, waitC, waitP, pcC, sf, c, p, fs>>

\* the "stop" message arrives and asks for the mutex
writesf_stop_msg ==
    /\ pcP = "idle"
    /\ obs.ops < MaxOpsW
    /\ obs' = [obs EXCEPT !.ops = @ + 1, !.out = "none"]
    /\ pcP' = "stop_lock"
    /\ UNCHANGED <<xvars, mutex, waitC, waitP, pcC, sf, c, p, fs>>

\* writesf_stop between lock and unlock (called for "stop" and by
\* writesf_open, which goes on to parse its arguments)
writesf_stop ==
    /\ pcP \in {"stop_cs", "wopen_stop_cs", "wusage_stop_cs"} /\ mutex = "parent"
    /\ x_state' = STATE_IDLE
    /\ x_requestcode' = REQUEST_CLOSE
    /\ waitC' = sfread_cond_signal(waitC)
    /\ mutex' = "free"
    /\ pcP' = IF pcP = "wopen_stop_cs" THEN "wopen_lock" ELSE "idle"
    /\ obs' = IF pcP = "wusage_stop_cs" THEN [obs EXCEPT !.out = "usage"] ELSE obs
    /\ UNCHANGED <<x_filename, x_fileerror, x_sf, x_onsetframes, x_fifosize,
                   x_fifohead, x_fifotail, x_eof, x_sigcountdown, x_sigperiod,
                   x_frameswritten, x_vecsize, x_buf, waitP, pcC, sf, c, p, fs>>

\* writesf_open with the mutex held: wait until the request code is NOTHING,
\* then post the OPEN request (one channel)
writesf_open ==
    /\ pcP = "wopen_cs" /\ mutex = "parent"
    /\ IF x_requestcode # REQUEST_NOTHING
       THEN /\ waitC' = sfread_cond_signal(waitC)
            /\ waitP' = "waiting"
            /\ mutex' = "free"
            /\ pcP' = "wopen_wait"
            /\ UNCHANGED <<xvars, p, obs>>
       ELSE /\ x_filename' = x_filename + 1
            /\ x_sf' = [x_sf EXCEPT
                          !.bytesperframe = 1 * (IF p.bps > 2 THEN p.bps ELSE 2)]
            /\ x_frameswritten' = 0
            /\ x_requestcode' = REQUEST_OPEN
            /\ x_fifotail' = 0
            /\ x_fifohead' = 0
            /\ x_eof' = 0
            /\ x_fileerror' = 0
            /\ x_state' = STATE_STARTUP
            /\ x_fifosize' = FifoSizeFor(x_sf'.bytesperframe)
            /\ x_sigperiod' = SigPeriodFor(x_fifosize', x_sf'.bytesperframe, x_vecsize)
            /\ x_sigcountdown' = x_sigperiod'
            /\ waitC' = sfread_cond_signal(waitC)
            /\ mutex' = "free"
            /\ pcP' = "idle"
            /\ p' = NoLocalsP
            /\ x_buf' = [i \in DOMAIN x_buf |-> -1]
            /\ obs' = [obs EXCEPT !.encoded = 0, !.handed = 0, !.header = -1]
            /\ UNCHANGED <<x_onsetframes, x_vecsize, waitP>>
    /\ UNCHANGED <<pcC, sf, c, fs>>

\* writesf_start
writesf_start ==
    /\ pcP = "idle"
    /\ obs.ops < MaxOpsW
    /\ x_state' = IF x_state = STATE_STARTUP THEN STATE_STREAM ELSE x_state
    /\ obs' = [obs EXCEPT !.ops = @ + 1,
                          !.out = IF x_state = STATE_STARTUP THEN "none" ELSE "error"]
    /\ UNCHANGED <<x_requestcode, x_filename, x_fileerror, x_sf, x_onsetframes,
                   x_fifosize, x_fifohead, x_fifotail, x_eof, x_sigcountdown,
                   x_sigperiod, x_frameswritten, x_vecsize, x_buf, mutex, waitC,
                   waitP, pcC, sf, c, pcP, p, fs>>

\* writesf_perform is called: it copies vecsize and x_sf, and with no stream
\* running it returns at once
writesf_perform_call ==
    /\ pcP = "idle"
    /\ IF x_state = STATE_STREAM
       THEN /\ obs.encoded < MaxBlocks * x_vecsize * x_sf.bytesperframe
            /\ pcP' = "wperf_lock"
            /\ p' = [p EXCEPT !.vecsize = x_vecsize, !.bpf = x_sf.bytesperframe]
       ELSE /\ pcP' = "idle"
            /\ p' = p
    /\ UNCHANGED <<xvars, mutex, waitC, waitP, pcC, sf, c, fs, obs>>

\* roominfifo as writesf_perform computes it
RoomInFifo ==
    IF x_fifotail - x_fifohead <= 0
    THEN x_fifotail - x_fifohead + x_fifosize
    ELSE x_fifotail - x_fifohead

\* writesf_perform with the mutex held: wait for room, or encode one block
writesf_perform ==
    /\ pcP = "wperf_cs" /\ mutex = "parent"
    /\ LET wantbytes == p.vecsize * p.bpf
       IN
       IF ToSizeT(RoomInFifo) < wantbytes + 1
       THEN /\ waitC' = sfread_cond_signal(waitC)
            /\ waitP' = "waiting"
            /\ mutex' = "free"
            /\ pcP' = "wperf_wait"
            /\ UNCHANGED <<x_fifohead, x_sigcountdown, x_buf, obs, p>>
       ELSE /\ x_buf' = [i \in DOMAIN x_buf |->
                           IF i >= x_fifohead /\ i < x_fifohead + wantbytes
                           THEN obs.encoded + (i - x_fifohead) ELSE x_buf[i]]
            /\ obs' = [obs EXCEPT !.encoded = @ + wantbytes]
            /\ x_fifohead' = IF x_fifohead + wantbytes >= x_fifosize
                             THEN 0 ELSE x_fifohead + wantbytes
            /\ IF x_sigcountdown - 1 <= 0
               THEN /\ waitC' = sfread_cond_signal(waitC)
                    /\ x_sigcountdown' = x_sigperiod
               ELSE /\ waitC' = waitC
                    /\ x_sigcountdown' = x_sigcountdown - 1
            /\ mutex' = "free"
            /\ pcP' = "idle"
            /\ p' = NoLocalsP
            /\ UNCHANGED waitP
    /\ UNCHANGED <<x_state, x_requestcode, x_filename, x_fileerror, x_sf,
                   x_onsetframes, x_fifosize, x_fifotail, x_eof, x_sigperiod,
                   x_frameswritten, x_vecsize, pcC, sf, c, fs>>

\* the object is freed: writesf_free asks for the mutex
writesf_free_msg ==
    /\ pcP = "idle"
    /\ pcP' = "free_lock"
    /\ UNCHANGED <<xvars, mutex, waitC, waitP, pcC, sf, c, p, fs, obs>>

\* writesf_free with the mutex held: post QUIT, then wait on the answer
\* condition until the request code is NOTHING
writesf_free ==
    /\ pcP \in {"free_cs", "free_loop"} /\ mutex = "parent"
    /\ x_requestcode' = IF pcP = "free_cs" THEN REQUEST_QUIT ELSE x_requestcode
    /\ IF x_requestcode' # REQUEST_NOTHING
       THEN /\ waitC' = sfread_cond_signal(waitC)
            /\ waitP' = "waiting"
            /\ pcP' = "free_wait"
       ELSE /\ pcP' = "free_join"
            /\ UNCHANGED <<waitC, waitP>>
    /\ mutex' = "free"
    /\ UNCHANGED <<x_state, x_filename, x_fileerror, x_sf, x_onsetframes, x_fifosize,
                   x_fifohead, x_fifotail, x_eof, x_sigcountdown, x_sigperiod,
                   x_frameswritten, x_vecsize, x_buf, pcC, sf, c, p, fs, obs>>

\* pthread_join returns once the child has left writesf_child_main
writesf_free_join ==
    /\ pcP = "free_join"
    /\ pcC = "done"
    /\ pcP' = "freed"
    /\ UNCHANGED <<xvars, mutex, waitC, waitP, pcC, sf, c, p, fs, obs>>

WriterChild ==
    \/ child_lock
    \/ child_wake
    \/ writesf_child_nothing
    \/ writesf_child_open
    \/ writesf_child_finish
    \/ writesf_child_finished
    \/ writesf_child_create
    \/ writesf_child_created
    \/ writesf_child_drain
    \/ writesf_child_write
    \/ writesf_child_written
    \/ writesf_child_close

WriterParent ==
    \/ parent_lock
    \/ parent_wake
    \/ writesf_open_msg
    \/ writesf_open_usage
    \/ writesf_open
    \/ writesf_start
    \/ writesf_stop_msg
    \/ writesf_stop
    \/ writesf_perform_call
    \/ writesf_perform
    \/ writesf_free_msg
    \/ writesf_free
    \/ writesf_free_join

NextW == WriterChild \/ WriterParent \/ spurious_wakeup

SpecW == InitW /\ [][NextW]_vars

(***************************************************************************)
(* Scheduling.  Both threads are scheduled fairly and every I/O call       *)
(* returns: a step of the child, and a step of a method or perform call    *)
(* that has begun, is taken if it is possible again and again (strong      *)
(* fairness, because taking the mutex is possible only from time to time). *)
(* DSP is running, so the host keeps calling the perform routine.  Nothing *)
(* obliges the user to send messages, and no wakeup has to be spurious.    *)
(***************************************************************************)
ReaderParentProgress ==
    \/ parent_lock
    \/ parent_wake
    \/ readsf_open
    \/ readsf_stop
    \/ readsf_perform
    \/ readsf_free
    \/ readsf_free_join

FairSpec ==
    /\ Init /\ [][NextR]_vars
    /\ SF_vars(ReaderChild)
    /\ SF_vars(ReaderParentProgress)
    /\ WF_vars(readsf_perform_call)

WriterParentProgress ==
    \/ parent_lock
    \/ parent_wake
    \/ writesf_open
    \/ writesf_stop
    \/ writesf_perform
    \/ writesf_free
    \/ writesf_free_join

FairSpecW ==
    /\ InitW /\ [][NextW]_vars
    /\ SF_vars(WriterChild)
    /\ SF_vars(WriterParentProgress)
    /\ WF_vars(writesf_perform_call)

(***************************************************************************)
(* An object of either class: what holds of "the reader and the writer" is *)
(* checked of both.                                                        *)
(***************************************************************************)
InitRW == Init \/ InitW

IsReader == obs.kind = "readsf"

IsWriter == obs.kind = "writesf"

NextRW ==
    \/ child_lock
    \/ child_wake
    \/ parent_lock
    \/ parent_wake
    \/ spurious_wakeup
    \/ IsReader /\ readsf_child_nothing
    \/ IsReader /\ readsf_child_open
    \/ IsReader /\ readsf_child_closefn
    \/ IsReader /\ readsf_child_closed
    \/ IsReader /\ readsf_child_openfile
    \/ IsReader /\ readsf_child_opened
    \/ IsReader /\ readsf_child_fill
    \/ IsReader /\ readsf_child_read
    \/ IsReader /\ readsf_child_commit
    \/ IsReader /\ readsf_child_lost
    \/ IsReader /\ readsf_child_close
    \/ IsReader /\ readsf_open_msg
    \/ IsReader /\ readsf_open_usage
    \/ IsReader /\ readsf_open
    \/ IsReader /\ readsf_start
    \/ IsReader /\ readsf_stop_msg
    \/ IsReader /\ readsf_stop
    \/ IsReader /\ readsf_perform_call
    \/ IsReader /\ readsf_perform
    \/ IsReader /\ readsf_free_msg
    \/ IsReader /\ readsf_free
    \/ IsReader /\ readsf_free_join
    \/ IsWriter /\ writesf_child_nothing
    \/ IsWriter /\ writesf_child_open
    \/ IsWriter /\ writesf_child_finish
    \/ IsWriter /\ writesf_child_finished
    \/ IsWriter /\ writesf_child_create
    \/ IsWriter /\ writesf_child_created
    \/ IsWriter /\ writesf_child_drain
    \/ IsWriter /\ writesf_child_write
    \/ IsWriter /\ writesf_child_written
    \/ IsWriter /\ writesf_child_close
    \/ IsWriter /\ writesf_open_msg
    \/ IsWriter /\ writesf_open_usage
    \/ IsWriter /\ writesf_open
    \/ IsWriter /\ writesf_start
    \/ IsWriter /\ writesf_stop_msg
    \/ IsWriter /\ writesf_stop
    \/ IsWriter /\ writesf_perform_call
    \/ IsWriter /\ writesf_perform
    \/ IsWriter /\ writesf_free_msg
    \/ IsWriter /\ writesf_free
    \/ IsWriter /\ writesf_free_join

SpecRW == InitRW /\ [][NextRW]_vars

FairSpecRW ==
    /\ InitRW /\ [][NextRW]_vars
    /\ SF_vars(IsReader /\ ReaderChild)
    /\ SF_vars(IsReader /\ ReaderParentProgress)
    /\ WF_vars(IsReader /\ readsf_perform_call)
    /\ SF_vars(IsWriter /\ WriterChild)
    /\ SF_vars(IsWriter /\ WriterParentProgress)
    /\ WF_vars(IsWriter /\ writesf_perform_call)

(***************************************************************************)
(* The DSP chain is rebuilt: readsf_dsp and writesf_dsp store the block     *)
(* size of the signal in x_vecsize and assign x_sigperiod, all with the     *)
(* mutex held (one step, taken when the mutex is free).  A block size is    *)
(* a power of two up to MAXVECSIZE.  A rebuild counts as an operation of    *)
(* the host.                                                                *)
(***************************************************************************)
VecSizes == {1, MAXVECSIZE}

readsf_dsp ==
    /\ pcP = "idle" /\ mutex = "free"
    /\ obs.ops < MaxOps
    /\ obs' = [obs EXCEPT !.ops = @ + 1]
    /\ \E n \in VecSizes \ {x_vecsize} :
          /\ x_vecsize' = n
          /\ x_sigperiod' = x_fifosize \div (x_sf.bytesperframe * n)
    /\ UNCHANGED <<x_state, x_requestcode, x_filename, x_fileerror, x_sf,
                   x_onsetframes, x_fifosize, x_fifohead, x_fifotail, x_eof,
                   x_sigcountdown, x_frameswritten, x_buf, mutex, waitC, waitP,
                   pcC, sf, c, pcP, p, fs>>

writesf_dsp ==
    /\ pcP = "idle" /\ mutex = "free"
    /\ obs.ops < MaxOpsW
    /\ obs' = [obs EXCEPT !.ops = @ + 1]
    /\ \E n \in VecSizes \ {x_vecsize} :
          /\ x_vecsize' = n
          /\ x_sigperiod' = SigPeriodFor(x_fifosize, x_sf.bytesperframe, n)
    /\ UNCHANGED <<x_state, x_requestcode, x_filename, x_fileerror, x_sf,
                   x_onsetframes, x_fifosize, x_fifohead, x_fifotail, x_eof,
                   x_sigcountdown, x_frameswritten, x_buf, mutex, waitC, waitP,
                   pcC, sf, c, pcP, p, fs>>

NextDsp ==
    \/ NextRW
    \/ IsReader /\ readsf_dsp
    \/ IsWriter /\ writesf_dsp

SpecDsp == InitRW /\ [][NextDsp]_vars

(***************************************************************************)
(* open_soundfile_via_fd(fd, &sf, skipframes), statement by statement, as  *)
(* the worker calls it through open_soundfile_via_path once open_via_path  *)
(* has returned descriptor fd: sf is the worker's local t_soundfile, c the *)
(* function's locals, pcC its position, fs the descriptor table.  The      *)
(* system calls and the type's handlers succeed or fail as they may.       *)
(***************************************************************************)
\* what a failing system call may leave in errno
OsErrnos == {EIO, EIO + 1}

\* the files the descriptor may refer to: those with a header that a
\* registered type recognises, and one that no type recognises
OpenFiles ==
    Files \cup {[len |-> 3, bpf |-> 0, known |-> FALSE, type |-> "junk",
                 headersize |-> 0, bigendian |-> 0]}

\* sf_types after soundfile_type_setup: the registered types in the order of
\* their registration (the raw type is not among them)
sf_types == <<"wave", "aiff", "caf", "next">>

\* the loop over soundfile_firsttype / soundfile_nexttype from entry i on:
\* the first type whose t_isheaderfn accepts the prefix, "none" (NULL) when
\* the end of sf_types is reached
RECURSIVE ProbeFrom(_, _)
ProbeFrom(i, accepts) ==
    IF i > Len(sf_types) THEN "none"
    ELSE IF sf_types[i] \in accepts THEN sf_types[i]
    ELSE ProbeFrom(i + 1, accepts)

\* the header prefixes a file may begin with, each described by the set of
\* types whose t_isheaderfn accepts it
Prefixes == SUBSET {sf_types[i] : i \in 1..Len(sf_types)}

\* the frames to skip: none, one, more than any file has
SkipFrames == {0, 1, MaxFileLen}

\* the locals: fd and errno, the return value once returned; file and
\* skipframes are the arguments' meaning, accepts the types whose probe
\* accepts what read() put into buf; path names the goto badheader that was
\* taken, oserr tells whether a system call has set errno, type0 and
\* headersize0 are sf_type and sf_headersize at entry
OpenLocals(f, skipframes) ==
    [fd |-> 1, fdin |-> 1, errno |-> 0, ret |-> 0, file |-> f,
     skipframes |-> skipframes, path |-> "", oserr |-> FALSE,
     accepts |-> {}, type0 |-> "none", headersize0 |-> 0]

\* the call: sf as soundfile_clear and the caller's arguments left it (every
\* caller clears sf first, so sf_fd = -1; a type may be given together with
\* a header size), errno with any value; no other thread takes part
InitOpen ==
    /\ x_state = STATE_STARTUP
    /\ x_requestcode = REQUEST_BUSY
    /\ x_filename = 1
    /\ x_fileerror = 0
    /\ x_onsetframes = 0
    /\ x_fifosize = 0
    /\ x_fifohead = 0
    /\ x_fifotail = 0
    /\ x_eof = 0
    /\ x_sigcountdown = 0
    /\ x_sigperiod = 0
    /\ x_frameswritten = 0
    /\ x_vecsize = MAXVECSIZE
    /\ x_buf = [i \in 0..(x_bufsize - 1) |-> -1]
    /\ mutex = "free"
    /\ waitC = "no"
    /\ waitP = "no"
    /\ pcP = "absent"
    /\ p = NoLocalsP
    /\ obs = [kind |-> "readsf", ops |-> 0, ok |-> TRUE, decoded |-> 0, err |-> 0,
              nbang |-> 0, out |-> "none", wok |-> TRUE, encoded |-> 0,
              handed |-> 0, header |-> -1, nioerr |-> 0, args |-> NoArgs,
              xfer |-> 0]
    /\ \E a \in OpenArgs, t \in {"none", "wave", "aiff"} :
          /\ sf = [OpenInfo(soundfile_clear, a) EXCEPT !.type = t]
          /\ x_sf = sf
    /\ \E f \in OpenFiles, skipframes \in SkipFrames, e \in {0} \cup OsErrnos,
          accepts \in Prefixes :
          /\ c = [OpenLocals(f, skipframes) EXCEPT
                    !.errno = e, !.accepts = accepts, !.type0 = sf.type,
                    !.headersize0 = sf.headersize]
          /\ fs = [fds |-> {1}, badclose |-> FALSE, name |-> 1, len |-> f.len,
                   pos |-> 0]
    /\ pcC = "ofd_entry"

\* errno = 0; if (sf->sf_headersize >= 0) sf->sf_type = &sf_rawtype;
open_fd_entry ==
    /\ pcC = "ofd_entry"
    /\ c' = [c EXCEPT !.errno = 0]
    /\ IF sf.headersize >= 0
       THEN /\ sf' = [sf EXCEPT !.type = "raw"]
            /\ pcC' = "ofd_openfn"
       ELSE /\ sf' = sf
            /\ pcC' = "ofd_probe"
    /\ UNCHANGED <<xvars, mutex, waitC, waitP, pcP, p, fs, obs>>

\* read(fd, buf, sf_minheadersize) and the probe that takes the accepting
\* type registered last
open_fd_probe_last ==
    /\ pcC = "ofd_probe"
    /\ \E readok \in BOOLEAN, e \in OsErrnos :
         LET accepts == IF readok THEN c.accepts ELSE {}
             type == IF sf.type = "none"
                     THEN IF accepts = {} THEN "none"
                          ELSE sf_types[CHOOSE i \in 1..Len(sf_types) :
                                 /\ sf_types[i] \in accepts
                                 /\ \A j \in (i + 1)..Len(sf_types) :
                                       sf_types[j] \notin accepts]
                     ELSE IF sf.type \in accepts THEN sf.type ELSE "none"
         IN /\ c' = [c EXCEPT !.errno = IF readok THEN @ ELSE e,
                              !.oserr = @ \/ ~readok,
                              !.accepts = accepts,
                              !.path = IF type # "none" THEN @
                                       ELSE IF sf.type = "none"
                                            THEN "notrecognised" ELSE "probe"]
            /\ sf' = IF type # "none" THEN [sf EXCEPT !.type = type] ELSE sf
            /\ fs' = IF readok THEN [fs EXCEPT !.pos = Min(fs.len, 4)] ELSE fs
            /\ pcC' = IF type # "none" THEN "ofd_rewind" ELSE "ofd_badheader"
    /\ UNCHANGED <<xvars, mutex, waitC, waitP, pcP, p, obs>>

\* read(fd, buf, sf_minheadersize) and the probe: of the registered types in
\* their order when sf_type is NULL, of the given type otherwise; a failed
\* read leaves bytesread = -1, which no type accepts
open_fd_probe ==
    /\ pcC = "ofd_probe"
    /\ \E readok \in BOOLEAN, e \in OsErrnos :
         LET accepts == IF readok THEN c.accepts ELSE {}
             type == IF sf.type = "none" THEN ProbeFrom(1, accepts)
                     ELSE IF sf.type \in accepts THEN sf.type ELSE "none"
         IN /\ c' = [c EXCEPT !.errno = IF readok THEN @ ELSE e,
                              !.oserr = @ \/ ~readok,
                              !.accepts = accepts,
                              !.path = IF type # "none" THEN @
                                       ELSE IF sf.type = "none"
                                            THEN "notrecognised" ELSE "probe"]
            /\ sf' = IF type # "none" THEN [sf EXCEPT !.type = type] ELSE sf
            /\ fs' = IF readok THEN [fs EXCEPT !.pos = Min(fs.len, 4)] ELSE fs
            /\ pcC' = IF type # "none" THEN "ofd_rewind" ELSE "ofd_badheader"
    /\ UNCHANGED <<xvars, mutex, waitC, waitP, pcP, p, obs>>

\* if (lseek(fd, 0, SEEK_SET) < 0) goto badheader;
open_fd_rewind ==
    /\ pcC = "ofd_rewind"
    /\ \/ /\ fs' = [fs EXCEPT !.pos = 0]
          /\ c' = c
          /\ pcC' = "ofd_openfn"
       \/ \E e \in OsErrnos :
             /\ c' = [c EXCEPT !.errno = e, !.oserr = TRUE, !.path = "rewind"]
             /\ fs' = fs
             /\ pcC' = "ofd_badheader"
    /\ UNCHANGED <<xvars, mutex, waitC, waitP, pcP, p, sf, obs>>

\* if (!sf->sf_type->t_openfn(sf, fd)) goto badheader;  the handler records
\* the descriptor (soundfile_type_open) and may fail before or after that
open_fd_openfn ==
    /\ pcC = "ofd_openfn"
    /\ \E r \in {"ok", "failed", "failed_recorded"} :
          /\ sf' = IF r = "failed" THEN sf ELSE [sf EXCEPT !.fd = c.fd]
          /\ c' = IF r = "ok" THEN c ELSE [c EXCEPT !.path = "openfn"]
          /\ pcC' = IF r = "ok" THEN "ofd_readheader" ELSE "ofd_badheader"
    /\ UNCHANGED <<xvars, mutex, waitC, waitP, pcP, p, fs, obs>>

\* if (!sf->sf_type->t_readheaderfn(sf)) goto badheader;  it fails on a
\* read error (errno set) or on a header it cannot use (errno untouched)
open_fd_readheader ==
    /\ pcC = "ofd_readheader"
    /\ \/ /\ c.file.type # "junk" \/ sf.type = "raw"
          /\ sf' = [HeaderRead(sf, sf.fd, c.file) EXCEPT !.type = sf.type]
          /\ fs' = [fs EXCEPT !.pos = Min(fs.len, sf'.headersize)]
          /\ c' = c
          /\ pcC' = "ofd_seek"
       \/ \E e \in {0} \cup OsErrnos :
             /\ c' = [c EXCEPT !.errno = IF e = 0 THEN @ ELSE e,
                               !.oserr = @ \/ e # 0, !.path = "readheader"]
             /\ UNCHANGED <<sf, fs>>
             /\ pcC' = "ofd_badheader"
    /\ UNCHANGED <<xvars, mutex, waitC, waitP, pcP, p, obs>>

\* if (!sf->sf_type->t_seektoframefn(sf, skipframes)) goto badheader;
\* sf->sf_bytelimit -= sf->sf_bytesperframe * skipframes, not below 0;
\* return fd;
open_fd_seek ==
    /\ pcC = "ofd_seek"
    /\ \/ /\ sf' = [sf EXCEPT !.bytelimit =
                                Max(0, @ - sf.bytesperframe * c.skipframes)]
          /\ fs' = [fs EXCEPT !.pos = sf.headersize
                                        + sf.bytesperframe * c.skipframes]
          /\ c' = [c EXCEPT !.ret = c.fd]
          /\ pcC' = "ofd_returned"
       \/ \E e \in OsErrnos :
             /\ c' = [c EXCEPT !.errno = e, !.oserr = TRUE, !.path = "seek"]
             /\ UNCHANGED <<sf, fs>>
             /\ pcC' = "ofd_badheader"
    /\ UNCHANGED <<xvars, mutex, waitC, waitP, pcP, p, obs>>

\* badheader that closes the descriptor once through t_closefn and once more
\* through sys_close
open_fd_badheader_twice ==
    /\ pcC = "ofd_badheader"
    /\ LET viatype == sf.fd >= 0 /\ sf.type # "none"
           fs1 == IF viatype THEN CloseFd(fs, sf.fd) ELSE fs
       IN /\ sf' = [sf EXCEPT !.fd = -1]
          /\ fs' = CloseFd(fs1, c.fd)
          /\ c' = [c EXCEPT !.errno = IF @ = 0 THEN EIO ELSE @,
                            !.fd = -1, !.ret = -1]
    /\ pcC' = "ofd_returned"
    /\ UNCHANGED <<xvars, mutex, waitC, waitP, pcP, p, obs>>

\* badheader: if (!errno) errno = EIO; if (sf->sf_fd >= 0 && sf->sf_type)
\* { t_closefn(sf); fd = -1; }  sf->sf_fd = -1; if (fd >= 0) sys_close(fd);
\* return -1;
open_fd_badheader ==
    /\ pcC = "ofd_badheader"
    /\ LET viatype == sf.fd >= 0 /\ sf.type # "none"
           fs1 == IF viatype THEN CloseFd(fs, sf.fd) ELSE fs
           fd1 == IF viatype THEN -1 ELSE c.fd
       IN /\ sf' = [sf EXCEPT !.fd = -1]
          /\ fs' = CloseFd(fs1, fd1)
          /\ c' = [c EXCEPT !.errno = IF @ = 0 THEN EIO ELSE @,
                            !.fd = fd1, !.ret = -1]
    /\ pcC' = "ofd_returned"
    /\ UNCHANGED <<xvars, mutex, waitC, waitP, pcP, p, obs>>

NextOpen ==
    \/ open_fd_entry
    \/ open_fd_probe
    \/ open_fd_rewind
    \/ open_fd_openfn
    \/ open_fd_readheader
    \/ open_fd_seek
    \/ open_fd_badheader

SpecOpen == InitOpen /\ [][NextOpen]_vars

\* the reader together with the open call of its worker taken statement by
\* statement
InitReadOpen == Init \/ InitOpen

NextReadOpen == NextR \/ NextOpen

SpecReadOpen == InitReadOpen /\ [][NextReadOpen]_vars

(***************************************************************************)
(* The functions of the soundfiler object and the sample transfer          *)
(* functions, which run on the calling thread alone.  pcC is the position  *)
(* in the function, c holds its arguments and locals, sf its t_soundfile,  *)
(* fs the descriptor table; the variables of t_readsf are not involved.    *)
(***************************************************************************)
CallInit ==
    /\ x_state = STATE_IDLE
    /\ x_requestcode = REQUEST_NOTHING
    /\ x_filename = 0
    /\ x_fileerror = 0
    /\ x_sf = soundfile_clear
    /\ x_onsetframes = 0
    /\ x_fifosize = 0
    /\ x_fifohead = 0
    /\ x_fifotail = 0
    /\ x_eof = 0
    /\ x_sigcountdown = 0
    /\ x_sigperiod = 0
    /\ x_frameswritten = 0
    /\ x_vecsize = MAXVECSIZE
    /\ x_buf = [i \in 0..(x_bufsize - 1) |-> -1]
    /\ mutex = "free"
    /\ waitC = "no"
    /\ waitP = "no"
    /\ pcP = "absent"
    /\ p = NoLocalsP
    /\ obs = [kind |-> "soundfiler", ops |-> 0, ok |-> TRUE, decoded |-> 0,
              err |-> 0, nbang |-> 0, out |-> "none", wok |-> TRUE,
              encoded |-> 0, handed |-> 0, header |-> -1, nioerr |-> 0,
              args |-> NoArgs, xfer |-> 0]

CallUnchanged == UNCHANGED <<xvars, mutex, waitC, waitP, pcP, p, obs>>

(* ---- soundfile_xferin_words / soundfile_xferin_sample ---- *)
\* A byte of a file is known by its offset in the sample data, and a decoded
\* sample by the bytes it was assembled from, the most significant first.
\* Zero is the sample 0, Garbage what a table holds before it is written.
Zero == <<>>
Garbage == <<-1>>

\* sp2[k] for sp2 = buf + q
ByteAt(buf, q, k) == buf[q + k + 1]

\* the decoder that reads 3-byte samples in one byte order only
DecodeSample_oneorder(s, buf, q) ==
    IF s.bytespersample = 2
    THEN IF s.bigendian = 1
         THEN <<ByteAt(buf, q, 0), ByteAt(buf, q, 1)>>
         ELSE <<ByteAt(buf, q, 1), ByteAt(buf, q, 0)>>
    ELSE IF s.bytespersample = 3
    THEN IF s.bigendian = 1
         THEN <<ByteAt(buf, q, 0), ByteAt(buf, q, 1), ByteAt(buf, q, 2)>>
         ELSE <<ByteAt(buf, q, 0), ByteAt(buf, q, 1), ByteAt(buf, q, 2)>>
    ELSE IF s.bigendian = 1
         THEN <<ByteAt(buf, q, 0), ByteAt(buf, q, 1), ByteAt(buf, q, 2),
                ByteAt(buf, q, 3)>>
         ELSE <<ByteAt(buf, q, 3), ByteAt(buf, q, 2), ByteAt(buf, q, 1),
                ByteAt(buf, q, 0)>>

\* the value assembled from the sample at buf + q
DecodeSample(s, buf, q) ==
    IF s.bytespersample = 2
    THEN IF s.bigendian = 1
         THEN <<ByteAt(buf, q, 0), ByteAt(buf, q, 1)>>
         ELSE <<ByteAt(buf, q, 1), ByteAt(buf, q, 0)>>
    ELSE IF s.bytespersample = 3
    THEN IF s.bigendian = 1
         THEN <<ByteAt(buf, q, 0), ByteAt(buf, q, 1), ByteAt(buf, q, 2)>>
         ELSE <<ByteAt(buf, q, 2), ByteAt(buf, q, 1), ByteAt(buf, q, 0)>>
    ELSE IF s.bigendian = 1
         THEN <<ByteAt(buf, q, 0), ByteAt(buf, q, 1), ByteAt(buf, q, 2),
                ByteAt(buf, q, 3)>>
         ELSE <<ByteAt(buf, q, 3), ByteAt(buf, q, 2), ByteAt(buf, q, 1),
                ByteAt(buf, q, 0)>>

\* vecs after soundfile_xferin_words(sf, nvecs, vecs, framesread, buf,
\* nframes): vecs[i][j] is entry j + 1 of the sequence vecs[i].  The channel
\* loop writes from vecs[i] + framesread on, if the sample size is 2, 3 or 4;
\* the loop that zeroes the other outputs writes from vecs[i] on
soundfile_xferin_words(s, nvecs, vecs, framesread, buf, nframes) ==
    LET nchannels == Min(s.nchannels, nvecs)
    IN [i \in DOMAIN vecs |->
         [j1 \in DOMAIN vecs[i] |->
            LET j == j1 - 1
            IN IF i < nchannels /\ s.bytespersample \in {2, 3, 4}
                  /\ j >= framesread /\ j < framesread + nframes
               THEN DecodeSample(s, buf, (j - framesread) * s.bytesperframe
                                           + i * s.bytespersample)
               ELSE IF i >= s.nchannels /\ i < nvecs /\ j < nframes
               THEN Zero
               ELSE vecs[i][j1]]]

\* soundfile_xferin_sample: the same loops, on t_sample vectors
soundfile_xferin_sample(s, nvecs, vecs, framesread, buf, nframes) ==
    soundfile_xferin_words(s, nvecs, vecs, framesread, buf, nframes)

(* ---- soundfile_xferout_sample / soundfile_xferout_words ---- *)
\* A sample is a multiple k of 2^-24, so that 1.0 is OneSample, and
\* normalfactor a fraction <<numerator, denominator>>.  HugeSample stands for
\* a sample so large (or not a number) that 32768. + sample * ff is outside
\* the range of int: its conversion to int is undefined, and what the build
\* then leaves in xx is the input ub.
OneSample == 16777216
HugeSample == 1073741824
IsHuge(k) == k >= HugeSample \/ k <= -HugeSample

\* the samples to encode: around 0, around +-1.0 by the smallest step and by
\* one step of the 16-bit format, +-2.0, and the huge ones
Samples ==
    {0, 1, -1, 511, 512, -512, -513,
     OneSample - 512, OneSample - 1, OneSample, OneSample + 1,
     -OneSample + 512, -OneSample + 1, -OneSample, -OneSample - 1,
     -OneSample - 512, 2 * OneSample, -2 * OneSample,
     HugeSample, -HugeSample}

NormalFactors == {<<1, 1>>, <<1, 2>>, <<2, 1>>}

\* what xx may hold after an undefined conversion
IntOutcomes == {-2147483647 - 1, -8388609, -32768, 0, 32768, 2147483647}

\* int xx = bias + (*fp * ff); xx -= bias; for ff = normalfactor * bias and
\* bias = 2^24 / step; the conversion truncates toward zero
SampleToInt(bias, step, k, normalfactor, ub) ==
    IF IsHuge(k) THEN ub
    ELSE LET den == step * normalfactor[2]
             num == bias * den + k * normalfactor[1]
         IN CDiv(num, den) - bias

\* if (xx < -limit) xx = -limit; if (xx > limit) xx = limit;
ClipInt(xx, limit) ==
    IF xx < -limit THEN -limit ELSE IF xx > limit THEN limit ELSE xx

\* the unsigned char that (xx >> n) is stored as
ShiftByte(xx, n) == (xx \div (2 ^ n)) % 256

\* f2.ui for f2.f = *fp * normalfactor: the bytes of the float from the most
\* significant one (sign, exponent, mantissa), exact for 0, 0.5, 1, 2, 4,
\* their negatives and the infinities; the other products get the mantissa
\* bits 18, 52, 86
FloatBits(k, normalfactor) ==
    LET num == IF IsHuge(k) THEN k ELSE k * normalfactor[1]
        den == normalfactor[2]
        sign == IF num < 0 THEN 128 ELSE 0
        abs == IF num < 0 THEN -num ELSE num
    IN IF abs = 0 THEN <<0, 0, 0, 0>>
       ELSE IF IsHuge(k) THEN <<sign + 127, 128, 0, 0>>
       ELSE IF 2 * abs = den * OneSample THEN <<sign + 63, 0, 0, 0>>
       ELSE IF abs = den * OneSample THEN <<sign + 63, 128, 0, 0>>
       ELSE IF abs = 2 * den * OneSample THEN <<sign + 64, 0, 0, 0>>
       ELSE IF abs = 4 * den * OneSample THEN <<sign + 64, 128, 0, 0>>
       ELSE <<sign + 61, 18, 52, 86>>

\* the encoder that clips 16-bit samples to -32768 .. 32767
EncodeSample_symmetric(s, k, normalfactor, ub) ==
    IF s.bytespersample = 2
    THEN LET x0 == SampleToInt(32768, 512, k, normalfactor, ub)
             xx == IF x0 < -32768 THEN -32768
                   ELSE IF x0 > 32767 THEN 32767 ELSE x0
         IN IF s.bigendian = 1
            THEN <<ShiftByte(xx, 8), ShiftByte(xx, 0)>>
            ELSE <<ShiftByte(xx, 0), ShiftByte(xx, 8)>>
    ELSE IF s.bytespersample = 3
    THEN LET xx == ClipInt(SampleToInt(8388608, 2, k, normalfactor, ub),
                           8388607)
         IN IF s.bigendian = 1
            THEN <<ShiftByte(xx, 16), ShiftByte(xx, 8), ShiftByte(xx, 0)>>
            ELSE <<ShiftByte(xx, 0), ShiftByte(xx, 8), ShiftByte(xx, 16)>>
    ELSE LET ui == FloatBits(k, normalfactor)
         IN IF s.bigendian = 1
            THEN <<ui[1], ui[2], ui[3], ui[4]>>
            ELSE <<ui[4], ui[3], ui[2], ui[1]>>

\* the bytes sp2[0], sp2[1], ... stored for one sample
EncodeSample(s, k, normalfactor, ub) ==
    IF s.bytespersample = 2
    THEN LET xx == ClipInt(SampleToInt(32768, 512, k, normalfactor, ub), 32767)
         IN IF s.bigendian = 1
            THEN <<ShiftByte(xx, 8), ShiftByte(xx, 0)>>
            ELSE <<ShiftByte(xx, 0), ShiftByte(xx, 8)>>
    ELSE IF s.bytespersample = 3
    THEN LET xx == ClipInt(SampleToInt(8388608, 2, k, normalfactor, ub),
                           8388607)
         IN IF s.bigendian = 1
            THEN <<ShiftByte(xx, 16), ShiftByte(xx, 8), ShiftByte(xx, 0)>>
            ELSE <<ShiftByte(xx, 0), ShiftByte(xx, 8), ShiftByte(xx, 16)>>
    ELSE LET ui == FloatBits(k, normalfactor)
         IN IF s.bigendian = 1
            THEN <<ui[1], ui[2], ui[3], ui[4]>>
            ELSE <<ui[4], ui[3], ui[2], ui[1]>>

\* buf after soundfile_xferout_sample(sf, vecs, buf, nframes, onsetframes,
\* normalfactor): nframes frames of sf_nchannels samples each, taken from
\* vecs[i] + onsetframes on; nothing is stored for other sample sizes
soundfile_xferout_sample(s, vecs, buf, nframes, onsetframes, normalfactor, ub) ==
    [q1 \in DOMAIN buf |->
       LET q == q1 - 1
           j == q \div s.bytesperframe
           i == (q % s.bytesperframe) \div s.bytespersample
           b == (q % s.bytesperframe) % s.bytespersample
       IN IF j < nframes /\ i < s.nchannels /\ s.bytespersample \in {2, 3, 4}
          THEN EncodeSample(s, vecs[i][onsetframes + j + 1], normalfactor,
                            ub)[b + 1]
          ELSE buf[q1]]

\* soundfile_xferout_words: the same loops, on t_word vectors
soundfile_xferout_words(s, vecs, buf, nframes, onsetframes, normalfactor, ub) ==
    soundfile_xferout_sample(s, vecs, buf, nframes, onsetframes, normalfactor,
                             ub)

\* the vectors to encode from: three elements each, x and y in turn
EncodeVecs(nchannels, x, y) ==
    [i \in 0..(nchannels - 1) |-> IF i = 0 THEN <<x, y, x>> ELSE <<y, x, y>>]

\* a call of the encoder is about to be made: sf holds the sample format
\* (the byte order is chosen at each call), c the vectors, the number of
\* frames and the onset, out[e] and in[e] the buffer encoded with byte order
\* e and what is decoded from it again, both empty as yet, by[e] the function
\* that encoded out[e]
InitXferOut ==
    /\ CallInit
    /\ \E nchannels \in {1, 2}, bytespersample \in {2, 3, 4}, x \in Samples,
          y \in {0, OneSample, -OneSample}, nframes \in {1, 2},
          onsetframes \in {0, 1}, normalfactor \in NormalFactors,
          ub \in IntOutcomes :
          /\ sf = [soundfile_clear EXCEPT
                     !.type = "wave", !.nchannels = nchannels,
                     !.bytespersample = bytespersample,
                     !.bytesperframe = nchannels * bytespersample]
          /\ c = [vecs |-> EncodeVecs(nchannels, x, y), nframes |-> nframes,
                  onsetframes |-> onsetframes, normalfactor |-> normalfactor,
                  ub |-> IF IsHuge(x) THEN ub ELSE 0,
                  out |-> [e \in {0, 1} |-> <<>>],
                  by |-> [e \in {0, 1} |-> ""],
                  in |-> [e \in {0, 1} |-> <<>>]]
    /\ fs = [fds |-> {}, badclose |-> FALSE, name |-> 0, len |-> 0, pos |-> 0]
    /\ pcC = "xfer"

\* soundfile_xferout_sample is called with byte order e on a buffer of
\* nframes frames
xferout_sample_call ==
    /\ pcC = "xfer"
    /\ \E e \in {0, 1} :
          /\ c.out[e] = <<>>
          /\ sf' = [sf EXCEPT !.bigendian = e]
          /\ c' = [c EXCEPT !.by[e] = "sample", !.out[e] =
                     soundfile_xferout_sample(sf', c.vecs,
                        [q \in 1..(c.nframes * sf.bytesperframe) |-> -1],
                        c.nframes, c.onsetframes, c.normalfactor, c.ub)]
    /\ UNCHANGED <<pcC, fs>>
    /\ CallUnchanged

\* soundfile_xferout_words is called in the same way
xferout_words_call ==
    /\ pcC = "xfer"
    /\ \E e \in {0, 1} :
          /\ c.out[e] = <<>>
          /\ sf' = [sf EXCEPT !.bigendian = e]
          /\ c' = [c EXCEPT !.by[e] = "words", !.out[e] =
                     soundfile_xferout_words(sf', c.vecs,
                        [q \in 1..(c.nframes * sf.bytesperframe) |-> -1],
                        c.nframes, c.onsetframes, c.normalfactor, c.ub)]
    /\ UNCHANGED <<pcC, fs>>
    /\ CallUnchanged

\* soundfile_xferin_sample is called with byte order e on the buffer that was
\* encoded with that byte order, to decode its frames into fresh vectors
xferin_sample_call ==
    /\ pcC = "xfer"
    /\ \E e \in {0, 1} :
          /\ c.out[e] # <<>> /\ c.in[e] = <<>>
          /\ sf' = [sf EXCEPT !.bigendian = e]
          /\ c' = [c EXCEPT !.in[e] =
                     soundfile_xferin_sample(sf', sf.nchannels,
                        [i \in 0..(sf.nchannels - 1) |->
                            [j \in 1..c.nframes |-> Garbage]],
                        0, c.out[e], c.nframes)]
    /\ UNCHANGED <<pcC, fs>>
    /\ CallUnchanged

NextXferOut ==
    \/ xferout_sample_call
    \/ xferout_words_call
    \/ xferin_sample_call

SpecXferOut == InitXferOut /\ [][NextXferOut]_vars

\* the bytes of the file (by offset) that a read of n bytes at pos delivers
FileBytes(pos, n) == [k \in 1..n |-> pos + k - 1]

(* ---- soundfile_xferin_sample / soundfile_xferin_words, one call ---- *)
\* a buffer of nframes frames whose bytes all differ, and nvecs destination
\* vectors that reach one element beyond the frames to transfer, untouched
\* as yet; by names the function that has been called
InitXferIn ==
    /\ CallInit
    /\ \E nchannels \in {1, 2}, bytespersample \in {2, 3, 4},
          bigendian \in {0, 1}, nvecs \in 1..3, framesread \in 0..2,
          nframes \in 1..2 :
          /\ sf = [soundfile_clear EXCEPT
                     !.headersize = 0, !.nchannels = nchannels,
                     !.bytespersample = bytespersample,
                     !.bigendian = bigendian,
                     !.bytesperframe = nchannels * bytespersample]
          /\ c = [nvecs |-> nvecs, framesread |-> framesread,
                  nframes |-> nframes,
                  buf |-> FileBytes(0, nframes * nchannels * bytespersample),
                  vecs |-> [i \in 0..(nvecs - 1) |->
                              [j \in 1..(framesread + nframes + 1) |->
                                  Garbage]],
                  by |-> ""]
    /\ fs = [fds |-> {}, badclose |-> FALSE, name |-> 0, len |-> 0, pos |-> 0]
    /\ pcC = "xferin"

\* soundfile_xferin_sample(sf, nvecs, vecs, framesread, buf, nframes)
xferin_sample_at ==
    /\ pcC = "xferin" /\ c.by = ""
    /\ c' = [c EXCEPT !.by = "sample", !.vecs =
                soundfile_xferin_sample(sf, c.nvecs, c.vecs, c.framesread,
                                        c.buf, c.nframes)]
    /\ UNCHANGED <<pcC, sf, fs>>
    /\ CallUnchanged

\* soundfile_xferin_words(sf, nvecs, vecs, framesread, buf, nframes)
xferin_words_at ==
    /\ pcC = "xferin" /\ c.by = ""
    /\ c' = [c EXCEPT !.by = "words", !.vecs =
                soundfile_xferin_words(sf, c.nvecs, c.vecs, c.framesread,
                                       c.buf, c.nframes)]
    /\ UNCHANGED <<pcC, sf, fs>>
    /\ CallUnchanged

NextXferIn ==
    \/ xferin_sample_at
    \/ xferin_words_at

SpecXferIn == InitXferIn /\ [][NextXferIn]_vars

(* ---- soundfiler_read, binary, from open_soundfile_via_canvas on ---- *)
\* the arguments are parsed and nvecs tables of vecsize elements each found
\* (tables of different sizes are resized to the size of the file): the
\* file has len bytes of sample data, which its header tells or does not
InitRead ==
    /\ CallInit
    /\ \E nchannels \in {1, 2}, bytespersample \in {2, 3}, bigendian \in {0, 1},
          nvecs \in 1..3, vecsize \in 1..MaxTable, skipframes \in {0, 1},
          known \in BOOLEAN :
          \E len \in 0..((MaxTable + 1) * nchannels * bytespersample) :
             /\ sf = [soundfile_clear EXCEPT
                        !.headersize = -1, !.nchannels = nchannels,
                        !.bytespersample = bytespersample,
                        !.bigendian = bigendian,
                        !.bytesperframe = nchannels * bytespersample]
             /\ c = [nvecs |-> nvecs, vecsize |-> vecsize,
                     skipframes |-> skipframes, known |-> known,
                     len |-> len, finalsize |-> vecsize, framesinfile |-> 0,
                     framesread |-> 0, bufframes |-> 0, fd |-> -1,
                     opened |-> FALSE,
                     vecs |-> [i \in 0..(nvecs - 1) |->
                                 [j \in 1..vecsize |-> Garbage]]]
             /\ fs = [fds |-> {}, badclose |-> FALSE, name |-> 1, len |-> len,
                      pos |-> 0]
    /\ pcC = "rd_open"

\* fd = open_soundfile_via_canvas(canvas, filename, &sf, skipframes): on
\* failure the error is reported and the function returns; else
\* framesinfile = sf_bytelimit / sf_bytesperframe, finalsize is the table
\* size, at most framesinfile, and bufframes = SAMPBUFSIZE / sf_bytesperframe
soundfiler_read_open ==
    /\ pcC = "rd_open"
    /\ \/ /\ sf' = [sf EXCEPT !.fd = -1]
          /\ UNCHANGED <<c, fs>>
          /\ pcC' = "rd_returned"
       \/ LET limit == IF c.known THEN fs.len ELSE SFMAXBYTES
              bytelimit == Max(0, limit - sf.bytesperframe * c.skipframes)
              framesinfile == bytelimit \div sf.bytesperframe
          IN /\ sf' = [sf EXCEPT !.fd = 1, !.type = "wave", !.headersize = 4,
                                 !.bytelimit = bytelimit]
             /\ fs' = [fs EXCEPT !.fds = {1},
                                 !.pos = sf.bytesperframe * c.skipframes]
             /\ c' = [c EXCEPT !.fd = 1, !.opened = TRUE,
                               !.framesinfile = framesinfile,
                               !.finalsize = Min(c.vecsize, framesinfile),
                               !.bufframes = SAMPBUFSIZE \div sf.bytesperframe]
             /\ pcC' = "rd_loop"
    /\ CallUnchanged

\* one pass of the read loop: t_readsamplesfn delivers n bytes (fewer than
\* asked for as read() may, none at the end of the file) or -1;
\* nframes = n / sf_bytesperframe; nframes <= 0 ends the loop, else the
\* frames are decoded into the tables at framesread
soundfiler_read_chunk ==
    /\ pcC = "rd_loop"
    /\ IF c.framesread >= c.finalsize
       THEN /\ pcC' = "rd_zero"
            /\ UNCHANGED <<c, fs>>
       ELSE LET thisread == Min(c.finalsize - c.framesread, c.bufframes)
                want == thisread * sf.bytesperframe
            IN \E n \in -1..want :
                 /\ n > 0 => n <= fs.len - fs.pos
                 /\ n = 0 => fs.pos >= fs.len
                 /\ LET nframes == CDiv(n, sf.bytesperframe)
                        sampbuf == FileBytes(fs.pos, Max(n, 0))
                    IN /\ fs' = [fs EXCEPT !.pos = @ + Max(n, 0)]
                       /\ IF nframes <= 0
                          THEN /\ c' = c
                               /\ pcC' = "rd_zero"
                          ELSE /\ c' = [c EXCEPT
                                    !.vecs = soundfile_xferin_words(sf, c.nvecs,
                                               c.vecs, c.framesread, sampbuf,
                                               nframes),
                                    !.framesread = @ + nframes]
                               /\ pcC' = "rd_loop"
    /\ sf' = sf
    /\ CallUnchanged

\* the end of soundfiler_read: the elements from framesread on of every table
\* and all elements of the tables in excess of the channels are set to 0,
\* the file is closed and framesread is put out
soundfiler_read_zero ==
    /\ pcC = "rd_zero"
    /\ c' = [c EXCEPT
               !.fd = -1,
               !.vecs = [i \in DOMAIN c.vecs |->
                           [j1 \in DOMAIN c.vecs[i] |->
                              IF j1 - 1 >= c.framesread \/ i >= sf.nchannels
                              THEN Zero ELSE c.vecs[i][j1]]]]
    /\ sf' = soundfile_type_close(sf)
    /\ fs' = CloseFd(fs, sf.fd)
    /\ pcC' = "rd_returned"
    /\ CallUnchanged

NextRead ==
    \/ soundfiler_read_open
    \/ soundfiler_read_chunk
    \/ soundfiler_read_zero

SpecRead == InitRead /\ [][NextRead]_vars

(* ---- soundfiler_dowrite, from the call of create_soundfile on ---- *)
\* the arguments are parsed, the tables found and wa_nframes is at least 1:
\* sf holds the sample format, nframes frames are to be written from onset on
InitDoWrite ==
    /\ CallInit
    /\ \E nframes \in 1..MaxFrames, onset \in {0, 1}, nchannels \in {1, 2},
          bytespersample \in {2, 3} :
          /\ sf = [soundfile_clear EXCEPT
                     !.type = "wave", !.nchannels = nchannels,
                     !.bytespersample = bytespersample,
                     !.bytesperframe = nchannels * bytespersample]
          /\ c = [nframes |-> nframes, onsetframes |-> onset,
                  frameswritten |-> 0, bufframes |-> 0, fd |-> -1,
                  created |-> FALSE, header |-> -1, ret |-> -1]
    /\ fs = [fds |-> {}, badclose |-> FALSE, name |-> 0, len |-> 0, pos |-> 0]
    /\ pcC = "dw_create"

\* fd = create_soundfile(canvas, filename, sf, wa.wa_nframes): the file is
\* created and t_writeheaderfn(sf, nframes) has written the header, or it
\* fails and soundfiler_dowrite returns 0 through fail;
\* bufframes = SAMPBUFSIZE / sf->sf_bytesperframe
dowrite_create ==
    /\ pcC = "dw_create"
    /\ \/ /\ sf' = [sf EXCEPT !.fd = 1, !.headersize = 4]
          /\ fs' = [fs EXCEPT !.fds = {1}, !.name = 1, !.len = 4, !.pos = 4]
          /\ c' = [c EXCEPT !.fd = 1, !.created = TRUE, !.header = c.nframes,
                            !.bufframes = SAMPBUFSIZE \div sf.bytesperframe]
          /\ pcC' = "dw_loop"
       \/ /\ sf' = soundfile_clear
          /\ fs' = fs
          /\ c' = [c EXCEPT !.ret = 0]
          /\ pcC' = "dw_returned"
    /\ CallUnchanged

\* one pass of the loop: thiswrite frames are encoded and handed to
\* t_writesamplesfn, whose result (a number of bytes, or -1) is stored in the
\* size_t byteswritten; a result below datasize ends the loop
dowrite_write ==
    /\ pcC = "dw_loop"
    /\ LET thiswrite == Min(c.nframes - c.frameswritten, c.bufframes)
           datasize == sf.bytesperframe * thiswrite
       IN \E n \in -1..datasize :
            LET byteswritten == ToSizeT(n)
            IN /\ fs' = [fs EXCEPT !.len = @ + Max(n, 0), !.pos = @ + Max(n, 0)]
               /\ IF byteswritten < datasize
                  THEN /\ c' = [c EXCEPT !.frameswritten =
                                   IF byteswritten > 0
                                   THEN @ + byteswritten \div sf.bytesperframe
                                   ELSE @]
                       /\ pcC' = "dw_finish"
                  ELSE /\ c' = [c EXCEPT !.frameswritten = @ + thiswrite,
                                         !.onsetframes = @ + thiswrite]
                       /\ pcC' = IF c'.frameswritten < c.nframes
                                 THEN "dw_loop" ELSE "dw_finish"
    /\ sf' = sf
    /\ CallUnchanged

\* the end of soundfiler_dowrite without soundfile_finishwrite
dowrite_finish_noupdate ==
    /\ pcC = "dw_finish"
    /\ c' = [c EXCEPT !.fd = -1, !.ret = c.frameswritten]
    /\ sf' = soundfile_type_close(sf)
    /\ fs' = CloseFd(fs, sf.fd)
    /\ pcC' = "dw_returned"
    /\ CallUnchanged

\* soundfile_finishwrite(obj, filename, sf, wa.wa_nframes, frameswritten):
\* nothing when frameswritten >= nframes, else t_updateheaderfn(sf,
\* frameswritten), whose failure is only reported; then t_closefn, return
\* frameswritten
dowrite_finish ==
    /\ pcC = "dw_finish"
    /\ IF c.frameswritten >= c.nframes
       THEN c' = [c EXCEPT !.fd = -1, !.ret = c.frameswritten]
       ELSE c' = [c EXCEPT !.fd = -1, !.ret = c.frameswritten,
                           !.header = c.frameswritten]
    /\ sf' = soundfile_type_close(sf)
    /\ fs' = CloseFd(fs, sf.fd)
    /\ pcC' = "dw_returned"
    /\ CallUnchanged

NextDoWrite ==
    \/ dowrite_create
    \/ dowrite_write
    \/ dowrite_finish

SpecDoWrite == InitDoWrite /\ [][NextDoWrite]_vars

(* ---- soundfiler_dowrite, from the parsed arguments to create_soundfile ---- *)
\* the lengths of the tables named in the message, one for each channel
TableLens == UNION {[1..n -> 0..MaxTable] : n \in {1, 2}}

\* soundfiler_parsewriteargs has returned 0: wa_onsetframes is the -skip
\* argument (0 without one) and wa_nframes the -nframes argument (SFMAXFRAMES
\* without one), both size_t; every table named exists and holds floats
InitWriteRange ==
    /\ CallInit
    /\ \E lens \in TableLens, onset \in 0..(MaxTable + 1),
          nframes \in (0..(MaxTable + 1)) \cup {SFMAXFRAMES} :
          /\ sf = [soundfile_clear EXCEPT
                     !.type = "wave", !.nchannels = Len(lens),
                     !.bytespersample = 2, !.bytesperframe = 2 * Len(lens)]
          /\ c = [lens |-> lens, i |-> 0, nframes |-> nframes,
                  onsetframes |-> onset, first |-> 0, last |-> 0,
                  msg |-> "none", created |-> FALSE, ret |-> -1]
    /\ fs = [fds |-> {}, badclose |-> FALSE, name |-> 0, len |-> 0, pos |-> 0]
    /\ pcC = "dw_tables"

\* one pass of the loop over the channels: garray_getfloatwords gives the
\* int vecsize, and wa_nframes is lowered to vecsize - wa_onsetframes, a
\* difference taken in size_t
dowrite_table ==
    /\ pcC = "dw_tables"
    /\ LET vecsize == c.lens[c.i + 1]
           room == ToSizeT(vecsize - c.onsetframes)
       IN c' = [c EXCEPT !.i = @ + 1,
                         !.nframes = IF @ > room THEN room ELSE @]
    /\ pcC' = IF c'.i < sf.nchannels THEN "dw_tables" ELSE "dw_check"
    /\ UNCHANGED <<sf, fs>>
    /\ CallUnchanged

\* if (wa.wa_nframes <= 0): "no samples at onset", goto fail, 0 is returned
dowrite_check ==
    /\ pcC = "dw_check"
    /\ IF c.nframes <= 0
       THEN /\ c' = [c EXCEPT !.msg = "no samples at onset", !.ret = 0]
            /\ pcC' = "dw_returned"
       ELSE /\ c' = c
            /\ pcC' = "dw_scan"
    /\ UNCHANGED <<sf, fs>>
    /\ CallUnchanged

\* the search for the biggest sample reads the elements wa_onsetframes to
\* wa_nframes + wa_onsetframes - 1 of every table; then create_soundfile is
\* called, and the write loop reads the same elements
dowrite_scan ==
    /\ pcC = "dw_scan"
    /\ c' = [c EXCEPT !.first = c.onsetframes,
                      !.last = (c.nframes + c.onsetframes) % SIZE_RANGE,
                      !.created = TRUE]
    /\ pcC' = "dw_create"
    /\ UNCHANGED <<sf, fs>>
    /\ CallUnchanged

NextWriteRange ==
    \/ dowrite_table
    \/ dowrite_check
    \/ dowrite_scan

SpecWriteRange == InitWriteRange /\ [][NextWriteRange]_vars

(***************************************************************************)
(*                              Claims                                     *)
(***************************************************************************)
PerformPcs == {"perf_lock", "perf_cs", "perf_wait"}
FreePcs == {"free_lock", "free_cs", "free_wait", "free_loop", "free_join"}
FillPcs == {"fill", "fill_wait", "read_io", "read_io_lock", "read_cs"}
WPerformPcs == {"wperf_lock", "wperf_cs", "wperf_wait"}
WMessagePcs == {"stop_lock", "stop_cs", "wopen_stop_lock", "wopen_stop_cs",
                "wopen_lock", "wopen_cs", "wopen_wait", "wusage_stop_lock",
                "wusage_stop_cs"} \cup FreePcs

\* C1: the blocks successive calls of readsf_perform decode while the state is
\* STREAM are the bytes of the file named by the last open, from frame
\* onsetframes on, in file order, none twice and none left out.
C1_StreamInOrder == obs.ok

\* C2: every call of readsf_perform made while the state is STREAM returns.
C2_PerformReturns == (pcP \in PerformPcs) ~> (pcP = "idle")

\* C3: once read_samples has returned a negative value to the fill loop
\* (fileerror set, eof not) while the state is STREAM, a later call of
\* readsf_perform reports the error and makes the EOF transition (state IDLE,
\* done bang), unless the host ends the stream itself.
C3_ReadErrorSurfaced ==
    (x_fileerror # 0 /\ x_eof = 0 /\ x_state = STATE_STREAM)
        ~> (obs.err # 0 \/ x_state # STATE_STREAM \/ pcP \in FreePcs \cup {"freed"})

\* the worker's open has failed: it is at "lost" with no file
FailedOpenAtLost == pcC = "lost" /\ sf.fd < 0

\* the parts of C4 that do not concern the request code: a failed open sets
\* fileerror and eof and leads to "lost"; with both set the worker is never in
\* the fill loop and the fifo is empty; a step of readsf_perform made in that
\* state reports the error, outputs zeros only, sets the state to IDLE and
\* schedules the done bang.
C4_ErrorAndEof ==
    /\ [][(pcC = "open_io_cs" /\ sf.fd < 0 /\ pcC' # pcC)
            => (x_fileerror' = c.errno /\ c.errno # 0 /\ x_eof' = 1
                /\ pcC' = "lost")]_vars
    /\ []((x_eof # 0 /\ x_fileerror # 0)
            => (pcC \notin FillPcs /\ x_fifohead = 0 /\ x_fifotail = 0))
    /\ [][(pcP = "perf_cs" /\ pcP' # pcP /\ x_eof # 0 /\ x_fileerror # 0)
            => (x_state' = STATE_IDLE /\ obs'.err = x_fileerror
                /\ obs'.nbang = obs.nbang + 1 /\ obs'.out = "zero"
                /\ pcP' = "idle")]_vars

C6_StopDrainsAndFinishes ==
    (/\ pcP = "idle" /\ x_state = STATE_IDLE /\ obs.encoded > 0
     /\ x_requestcode = REQUEST_NOTHING /\ obs.nioerr = 0 /\ x_eof = 0)
    => (/\ x_fifohead = x_fifotail
        /\ x_filename \notin fs.fds
        /\ obs.header # -1
        /\ obs.header * x_sf.bytesperframe = obs.encoded)

\* C7: when writesf_free has returned after an open whose file the worker
\* has finished (no I/O error), the fifo is drained and the frame count put
\* into the header is the number of frames encoded since the open.
C7_QuitDrainsLikeClose ==
    (/\ pcP = "freed" /\ x_filename > 0 /\ obs.header # -1
     /\ obs.nioerr = 0 /\ x_eof = 0)
    => (/\ x_fifohead = x_fifotail
        /\ obs.header * x_sf.bytesperframe = obs.encoded)

\* C8: after a short write has been recorded in fileerror, a stop, open or
\* free the host has begun completes.
C8_ShortWriteRecovers ==
    (x_fileerror # 0 /\ x_eof = 0 /\ pcP \in WMessagePcs)
        ~> (pcP \in {"idle", "freed"})

\* C9: after a failed create (eof set), every call of writesf_perform made
\* while the state is STREAM returns.
C9_PerformReturnsAfterCreateFailure ==
    (x_eof # 0 /\ pcP \in WPerformPcs) ~> (pcP = "idle")

\* C10: readsf_free, once called, returns; when it has returned the child has
\* left readsf_child_main and the request code is NOTHING.
C10_FreeReturns ==
    /\ (pcP \in FreePcs) ~> (pcP = "freed")
    /\ [](pcP = "freed" => pcC = "done" /\ x_requestcode = REQUEST_NOTHING)

\* the object was freed after it had streamed part of a file
C10_Witness == pcP = "freed" /\ obs.decoded > 0 /\ obs.ok

\* the reader's worker waits at the top of its loop with nothing requested,
\* or has left readsf_child_main
ReaderWorkerAtRest ==
    \/ pcC = "top_wait" /\ x_requestcode = REQUEST_NOTHING
    \/ pcC = "done"

\* C11: whenever the reader's worker waits with request = NOTHING or has
\* exited, no file it opened is still open, and sys_close is never called on a
\* descriptor that is not open (each file is closed exactly once).
C11_EveryFileClosedOnce ==
    /\ ~fs.badclose
    /\ ReaderWorkerAtRest => fs.fds = {}

\* the second file opened has been streamed in part and closed again
C11_Witness ==
    /\ ReaderWorkerAtRest /\ x_filename = 2 /\ obs.decoded > 0
    /\ fs.fds = {} /\ ~fs.badclose

\* a step made of one whole message method: the parent is idle before and
\* after it and one more message has been handled (start takes no lock)
StartStep == pcP = "idle" /\ pcP' = "idle" /\ obs'.ops = obs.ops + 1

\* C12: for the reader and the writer, start changes the state to STREAM if
\* and only if the state is STARTUP; issued in IDLE or in STREAM it reports an
\* error and leaves state, request, head, tail, eof and fileerror unchanged.
C12_StartOnlyFromStartup ==
    [][StartStep =>
        /\ x_state = STATE_STARTUP
              => (x_state' = STATE_STREAM /\ obs'.out # "error")
        /\ x_state # STATE_STARTUP
              => /\ obs'.out = "error"
                 /\ UNCHANGED <<x_state, x_requestcode, x_fifohead, x_fifotail,
                                x_eof, x_fileerror>>]_vars

\* a writer that was started from STARTUP and then told to start again
C12_Witness == IsWriter /\ obs.out = "error" /\ x_state = STATE_STREAM

\* C13: when readsf_open releases the mutex, whatever the state and the
\* pending request were, head = tail = 0, eof = 0, fileerror = 0, request =
\* OPEN and state = STARTUP, and filename, onsetframes and the header-override
\* fields (headersize, channels, bytes per sample, byte order) are those of
\* this open message.
C13_OpenPostsRequest ==
    [][(pcP = "open_cs" /\ pcP' # pcP) =>
        /\ mutex' = "free"
        /\ x_fifohead' = 0 /\ x_fifotail' = 0
        /\ x_eof' = 0 /\ x_fileerror' = 0
        /\ x_requestcode' = REQUEST_OPEN /\ x_state' = STATE_STARTUP
        /\ x_filename' = x_filename + 1
        /\ x_onsetframes' = Max(p.args.onset, 0)
        /\ x_sf'.headersize = (IF p.args.headersize = 0 THEN -1
                               ELSE Max(p.args.headersize, 0))
        /\ x_sf'.nchannels = Max(p.args.nchannels, 1)
        /\ x_sf'.bytespersample = Max(p.args.bytespersample, 2)
        /\ x_sf'.bigendian = (IF p.args.endian = "b" THEN 1 ELSE 0)]_vars

\* an open that overrides the header has been posted while the worker was
\* still filling the fifo from the file of the open before
C13_Witness ==
    /\ pcC \in FillPcs /\ x_requestcode = REQUEST_OPEN /\ x_state = STATE_STARTUP
    /\ x_filename = 2 /\ x_sf.headersize = 6 /\ x_sf.bytespersample = 3
    /\ x_fifohead = 0 /\ x_fifotail = 0 /\ x_eof = 0

\* C14: for the reader and the writer, stop sets state = IDLE and request =
\* CLOSE, and then, unless a further request is posted (or a write fails), the
\* worker eventually has closed every file it holds open and set request =
\* NOTHING.
C14_StopClosesFile ==
    /\ [][(pcP = "stop_cs" /\ pcP' # pcP)
            => (x_state' = STATE_IDLE /\ x_requestcode' = REQUEST_CLOSE)]_vars
    /\ (x_requestcode = REQUEST_CLOSE /\ obs.nioerr = 0)
          ~> \/ x_requestcode = REQUEST_NOTHING /\ fs.fds = {}
             \/ x_requestcode \in {REQUEST_OPEN, REQUEST_QUIT}
             \/ obs.nioerr > 0

\* C15: a call of the perform routine made while the state is not STREAM
\* leaves head, tail, eof, fileerror, request, state and sigcountdown as they
\* are and returns without taking the mutex or waiting; readsf_perform has
\* then zeroed its output vectors, writesf_perform has encoded no input.
C15_IdlePerformDoesNothing ==
    [][(x_state # STATE_STREAM /\ (\/ IsReader /\ readsf_perform_call
                                   \/ IsWriter /\ writesf_perform_call))
         => /\ UNCHANGED <<x_fifohead, x_fifotail, x_eof, x_fileerror,
                           x_requestcode, x_state, x_sigcountdown>>
            /\ pcP' = "idle" /\ mutex' = mutex /\ waitP' = waitP
            /\ IsReader => obs'.out = "zero"
            /\ IsWriter => (obs'.encoded = obs.encoded /\ x_buf' = x_buf)]_vars

\* readsf_perform has been called between open and start, while the worker
\* was filling the fifo
C15_Witness ==
    /\ IsReader /\ x_state = STATE_STARTUP /\ obs.out = "zero"
    /\ pcC \in FillPcs /\ x_fifohead > 0

\* the EOF transition of readsf_perform: a step of the perform routine, mutex
\* held, that takes the state from STREAM to IDLE
EofTransition == pcP = "perf_cs" /\ x_state = STATE_STREAM /\ x_state' = STATE_IDLE

\* C16: when eof is set and fewer than wantbytes = vecsize * bytesperframe
\* bytes remain between tail and head, readsf_perform makes the EOF
\* transition; in it, it decodes exactly the complete frames that remain,
\* floor((head - tail) / bytesperframe), zero-fills the rest of the output and
\* sets state = IDLE; no frame it decodes holds a byte beyond head.
C16_EofDecodesWholeFrames ==
    /\ [][(/\ pcP = "perf_cs" /\ pcP' # pcP /\ x_eof # 0
           /\ x_fifohead >= x_fifotail
           /\ x_fifohead - x_fifotail < x_vecsize * x_sf.bytesperframe)
            => EofTransition]_vars
    /\ [][EofTransition =>
            /\ obs'.xfer = (x_fifohead - x_fifotail) \div x_sf.bytesperframe
            /\ obs'.xfer * x_sf.bytesperframe <= x_fifohead - x_fifotail
            /\ obs'.out \in {"zero", "partial"}]_vars

\* C17: the done bang is scheduled by the EOF transition of readsf_perform
\* (state STREAM to IDLE) and by nothing else, so never by stop, open or free
\* and never in a step that leaves the state STREAM; it is scheduled at most
\* once after each open.
C17_BangOnlyAtEof ==
    /\ [][/\ EofTransition => obs'.nbang = obs.nbang + 1
          /\ obs'.nbang > obs.nbang => EofTransition]_vars
    /\ [](obs.nbang <= 1)

\* a stream has run into the end of its file: the bang is scheduled, the
\* state is IDLE
C17_Witness ==
    /\ obs.nbang = 1 /\ x_state = STATE_IDLE /\ obs.decoded > 0
    /\ x_eof = 1 /\ x_fileerror = 0 /\ obs.out \in {"zero", "partial"}

\* the worker starts a call of open_soundfile_via_path
OpenCallBegins == pcC # "open_io" /\ pcC' = "open_io"

\* C18: when a second open has been issued (also while the worker was still
\* in the open call, in the fill loop or in read_samples for the first one),
\* the worker has closed the first file before it opens the next, and it
\* opens the next with the filename, the onset, the header-override fields
\* (headersize, channels, bytes per sample, byte order) and the forced type of
\* the latest open message.
C18_ReopenUsesNewArguments ==
    [][(OpenCallBegins /\ x_filename >= 2) =>
        /\ fs'.fds = {}
        /\ c'.filename = x_filename
        /\ c'.onsetframes = Max(obs.args.onset, 0)
        /\ sf'.headersize = (IF obs.args.headersize = 0 THEN -1
                             ELSE Max(obs.args.headersize, 0))
        /\ sf'.nchannels = Max(obs.args.nchannels, 1)
        /\ sf'.bytespersample = Max(obs.args.bytespersample, 2)
        /\ sf'.bigendian = (IF obs.args.endian = "b" THEN 1 ELSE 0)
        /\ sf'.type = (IF sf'.headersize >= 0 THEN "none" ELSE obs.args.type)]_vars

\* a step of an open command that is rejected as a usage error: of the
\* reader's (one step), or of the writer's (the message arrives; with a
\* stream open, writesf_stop's lock and critical section)
UsageErrorStep ==
    \/ IsReader /\ readsf_open_usage
    \/ IsWriter /\ writesf_open_usage
    \/ pcP = "wusage_stop_lock" /\ parent_lock
    \/ pcP = "wusage_stop_cs" /\ writesf_stop

\* C19: an open command of the reader or the writer that is rejected as a
\* usage error changes none of state, request, head, tail, eof, fileerror and
\* the shared descriptor, and when it returns it has printed the usage line.
C19_UsageErrorChangesNothing ==
    [][UsageErrorStep =>
        /\ UNCHANGED <<x_state, x_requestcode, x_fifohead, x_fifotail, x_eof,
                       x_fileerror, x_sf>>
        /\ pcP' = "idle" => obs'.out = "usage"]_vars

\* open_soundfile_via_fd has returned after a goto badheader
OpenFailed == pcC = "ofd_returned" /\ c.path # ""

\* C20: on every failure path of open_soundfile_via_fd (header not
\* recognised, the given type's probe rejects it, rewind fails, the type's
\* open, read-header or seek handler fails) the function returns -1 with
\* errno nonzero, EIO when no system call set it, the descriptor passed in has
\* been closed exactly once, and sf.fd is -1.
C20_FailedOpenClosesFd ==
    /\ pcC = "ofd_badheader" => c.path # ""
    /\ OpenFailed =>
          /\ c.ret = -1
          /\ c.errno # 0
          /\ ~c.oserr => c.errno = EIO
          /\ c.fdin \notin fs.fds
          /\ ~fs.badclose
          /\ sf.fd = -1

\* the read-header handler has failed without an errno, after the type's
\* open handler recorded the descriptor: closed through the type, errno EIO
C20_Witness ==
    /\ OpenFailed
    /\ c.path = "readheader"
    /\ ~c.oserr /\ c.errno = EIO
    /\ c.ret = -1
    /\ fs.fds = {} /\ ~fs.badclose
    /\ sf.fd = -1 /\ sf.type = "wave"

\* the type's handlers are being, or have been, called: past the selection
HandlerSelected ==
    \/ pcC \in {"ofd_openfn", "ofd_readheader", "ofd_seek"}
    \/ pcC \in {"ofd_badheader", "ofd_returned"}
          /\ c.path \notin {"notrecognised", "probe", "rewind"}

\* the selection is over: for good or with a goto badheader
SelectionDone == pcC \notin {"ofd_entry", "ofd_probe"}

\* t is the first type in registration order whose probe accepts the prefix
FirstAccepting(t, accepts) ==
    \E i \in 1..Len(sf_types) :
        /\ sf_types[i] = t
        /\ t \in accepts
        /\ \A j \in 1..(i - 1) : sf_types[j] \notin accepts

HeadersizeFor(h) == IF h > 0 THEN h ELSE IF h = 0 THEN -1 ELSE 0

\* the worker's open_soundfile_via_path for the latest open command has
\* returned with the file open
OpenCallSucceeds ==
    /\ pcC = "open_io" /\ pcC' = "open_io_lock"
    /\ c.filename = x_filename /\ sf'.fd >= 0

\* C22: the reader's open with a headersize argument of 0 stores -1 and the
\* worker detects the header; with a positive argument N it stores N, with a
\* negative one 0, and the worker opens the file as raw data with a header
\* of that size; whenever raw is selected, the type flag of the command is
\* dropped.
C22_HeadersizeArgument ==
    [][/\ (pcP = "open_cs" /\ pcP' # pcP) =>
             /\ x_sf'.headersize = HeadersizeFor(p.args.headersize)
             /\ x_sf'.type = IF HeadersizeFor(p.args.headersize) >= 0
                              THEN "none" ELSE p.args.type
       /\ (OpenCallBegins /\ c'.filename = x_filename) =>
             /\ sf'.headersize = HeadersizeFor(obs.args.headersize)
             /\ HeadersizeFor(obs.args.headersize) >= 0 => sf'.type = "none"
       /\ OpenCallSucceeds =>
             IF HeadersizeFor(obs.args.headersize) >= 0
             THEN /\ sf'.type = "raw"
                  /\ sf'.headersize = HeadersizeFor(obs.args.headersize)
             ELSE sf'.type # "raw"]_vars

\* the worker commits a read of at least one byte
ReadCommitted ==
    /\ pcC = "read_cs" /\ pcC' # pcC
    /\ x_requestcode = REQUEST_BUSY /\ c.bytesread > 0

\* C23: sf_bytelimit is never negative and grows only where a file is
\* opened: open_soundfile_via_fd reduces it by skipframes * bytesperframe,
\* not below 0; the reader's worker never asks for more bytes than
\* sf_bytelimit, reduces it by the bytes read at every read it commits, and
\* sets x_eof in the step in which it reaches 0.
C23_BytelimitDecreases ==
    /\ [](x_sf.bytelimit >= 0 /\ sf.bytelimit >= 0)
    /\ [][/\ (pcC = "ofd_seek" /\ pcC' = "ofd_returned") =>
                /\ sf'.bytelimit >= 0
                /\ sf'.bytelimit =
                      IF sf.bytelimit >= c.skipframes * sf.bytesperframe
                      THEN sf.bytelimit - c.skipframes * sf.bytesperframe
                      ELSE 0
          /\ (pcC = "fill" /\ pcC' = "read_io") =>
                c'.wantbytes >= 0 /\ c'.wantbytes <= x_sf.bytelimit
          /\ ReadCommitted =>
                /\ x_sf'.bytelimit = x_sf.bytelimit - c.bytesread
                /\ (x_sf'.bytelimit = 0 => x_eof' = 1)
          /\ (pcC = "read_cs" /\ pcC' # pcC /\ ~ReadCommitted) =>
                x_sf'.bytelimit = x_sf.bytelimit
          /\ x_sf'.bytelimit > x_sf.bytelimit =>
                (pcP = "open_cs" \/ pcC = "open_io_cs")]_vars

\* the worker has read the first file to its end, bytelimit has come down
\* to 0 and x_eof is set
C23_Witness ==
    /\ x_sf.bytelimit = 0 /\ x_eof = 1 /\ x_fileerror = 0
    /\ x_filename = 1 /\ x_sf.fd = 1
    /\ fs.pos = fs.len

\* C24: when soundfiler_dowrite has created the file and returns, the frame
\* count last given to a header handler (nframes to t_writeheaderfn, then
\* the count given to t_updateheaderfn if it was called) is the number of
\* frames returned, after complete writes and after a short one.
C24_HeaderCountIsFramesWritten ==
    (pcC = "dw_returned" /\ c.created) =>
        /\ c.header = c.ret
        /\ c.ret = c.frameswritten
        /\ c.ret <= c.nframes
        /\ fs.fds = {} /\ ~fs.badclose

\* a write was short after at least one whole frame: fewer frames than asked
\* for are returned, and the header has been updated to that count
C24_Witness ==
    /\ pcC = "dw_returned" /\ c.created
    /\ c.ret > 0 /\ c.ret < c.nframes
    /\ c.header = c.ret
    /\ fs.len < 4 + c.nframes * sf.bytesperframe

\* channel ch of frame f of the file: its bytes, the most significant first
FileSample(s, f, ch) ==
    LET o == f * s.bytesperframe + ch * s.bytespersample
    IN IF s.bigendian = 1
       THEN [k \in 1..s.bytespersample |-> o + k - 1]
       ELSE [k \in 1..s.bytespersample |-> o + s.bytespersample - k]

\* the whole frames the file holds from frame skipframes on
FramesInFile ==
    Max(0, c.len - c.skipframes * sf.bytesperframe) \div sf.bytesperframe

\* C25: after a successful binary soundfiler_read into nvecs tables,
\* framesread is at most the frames in the file and the table size; every
\* table below min(nvecs, nchannels) holds that channel of the file's frames
\* in order in its entries below framesread and 0 from framesread on; every
\* table from nchannels on is 0 throughout.
C25_BulkReadFillsTables ==
    (pcC = "rd_returned" /\ c.opened) =>
        /\ c.framesread <= Min(FramesInFile, c.vecsize)
        /\ \A i \in DOMAIN c.vecs : \A j \in 0..(c.vecsize - 1) :
              c.vecs[i][j + 1] =
                 IF i < sf.nchannels /\ j < c.framesread
                 THEN FileSample(sf, c.skipframes + j, i)
                 ELSE Zero

\* the bytes that out[e] holds for channel i of frame j, the most
\* significant first
PackedBytes(e, j, i) ==
    DecodeSample([sf EXCEPT !.bigendian = e], c.out[e],
                 j * sf.bytesperframe + i * sf.bytespersample)

\* the signed integer of 2 or 3 bytes, the most significant first
SignedValue(t) ==
    IF Len(t) = 2
    THEN LET u == t[1] * 256 + t[2]
         IN IF u >= 32768 THEN u - 65536 ELSE u
    ELSE LET u == t[1] * 65536 + t[2] * 256 + t[3]
         IN IF u >= 8388608 THEN u - 16777216 ELSE u

\* the sample encoded as channel i of frame j
SampleIn(j, i) == c.vecs[i][c.onsetframes + j + 1]

\* C26: for every sample and every normalfactor the encoder packs a 16-bit
\* value in -32767 .. 32767 and a 24-bit value in -8388607 .. 8388607; at
\* normalfactor 1 the sample 1.0 is packed as 32767 (8388607) and -1.0 as
\* -32767 (-8388607).
C26_EncodeClipsAsymmetrically ==
    \A e \in {0, 1} :
      (pcC = "xfer" /\ c.out[e] # <<>> /\ sf.bytespersample \in {2, 3}) =>
        LET limit == IF sf.bytespersample = 2 THEN 32767 ELSE 8388607
        IN \A j \in 0..(c.nframes - 1), i \in 0..(sf.nchannels - 1) :
             LET v == SignedValue(PackedBytes(e, j, i))
             IN /\ v >= -limit /\ v <= limit
                /\ (c.normalfactor = <<1, 1>> /\ SampleIn(j, i) = OneSample)
                     => v = limit
                /\ (c.normalfactor = <<1, 1>> /\ SampleIn(j, i) = -OneSample)
                     => v = -limit

\* 16 bits, normalfactor 1: -1.0 and 1.0 have been encoded in one frame of
\* two channels, as -32767 and 32767
C26_Witness ==
    /\ pcC = "xfer" /\ c.out[1] # <<>>
    /\ sf.bytespersample = 2 /\ sf.nchannels = 2
    /\ c.normalfactor = <<1, 1>>
    /\ SampleIn(0, 0) = -OneSample /\ SampleIn(0, 1) = OneSample
    /\ SignedValue(PackedBytes(1, 0, 0)) = -32767
    /\ SignedValue(PackedBytes(1, 0, 1)) = 32767

\* C27: for the sample sizes 2, 3 and 4 and every channel count and input,
\* the bytes the encoder stores for a sample with the big-endian byte order
\* are those it stores with the little-endian order, reversed; and what the
\* decoder makes of the big-endian bytes as big-endian is what it makes of
\* the little-endian bytes as little-endian.
C27_ByteOrdersMirror ==
    /\ (pcC = "xfer" /\ c.out[0] # <<>> /\ c.out[1] # <<>>) =>
          \A j \in 0..(c.nframes - 1), i \in 0..(sf.nchannels - 1),
             b \in 0..(sf.bytespersample - 1) :
             LET q == j * sf.bytesperframe + i * sf.bytespersample
             IN /\ ByteAt(c.out[1], q, b) \in 0..255
                /\ ByteAt(c.out[1], q, b)
                     = ByteAt(c.out[0], q, sf.bytespersample - 1 - b)
    /\ (pcC = "xfer" /\ c.in[0] # <<>> /\ c.in[1] # <<>>) =>
          /\ c.in[0] = c.in[1]
          /\ \A j \in 0..(c.nframes - 1), i \in 0..(sf.nchannels - 1) :
                /\ Len(c.in[1][i][j + 1]) = sf.bytespersample
                /\ c.in[1][i][j + 1] = PackedBytes(1, j, i)

\* two frames of two 3-byte channels have been encoded and decoded again in
\* both byte orders, one of them by each encoder; the first sample is packed
\* in three different bytes
C27_Witness ==
    /\ pcC = "xfer" /\ c.in[0] # <<>> /\ c.in[1] # <<>>
    /\ c.by[0] = "sample" /\ c.by[1] = "words"
    /\ sf.bytespersample = 3 /\ sf.nchannels = 2 /\ c.nframes = 2
    /\ c.in[0] = c.in[1]
    /\ c.out[0] # c.out[1]
    /\ Cardinality({c.out[1][1], c.out[1][2], c.out[1][3]}) = 3

\* C28: after soundfile_xferin_sample or soundfile_xferin_words with nvecs
\* destination vectors, offset framesread and nframes frames, every vector
\* of a channel below min(nchannels, nvecs) holds the decoded samples in
\* elements framesread .. framesread + nframes - 1, every vector from
\* nchannels on holds zero in exactly these elements, and every other
\* element of every vector is as it was.
C28_DecodeWritesTransferredRange ==
    (pcC = "xferin" /\ c.by # "") =>
       \A i \in 0..(c.nvecs - 1), j \in 0..(c.framesread + c.nframes) :
          LET transferred == j >= c.framesread /\ j < c.framesread + c.nframes
          IN c.vecs[i][j + 1] =
                IF transferred /\ i < Min(sf.nchannels, c.nvecs)
                THEN DecodeSample(sf, c.buf,
                                  (j - c.framesread) * sf.bytesperframe
                                     + i * sf.bytespersample)
                ELSE IF transferred /\ i >= sf.nchannels
                THEN Zero
                ELSE Garbage

\* the stream for which x_fifosize was set is still the current one: the
\* reader's worker is in its fill loop with the request still BUSY; the
\* writer's fifosize is set by writesf_open together with x_sf
StreamCurrent ==
    IF obs.kind = "readsf"
    THEN pcC \in FillPcs /\ x_requestcode = REQUEST_BUSY
    ELSE TRUE

\* C29: once fifosize has been set from bufsize, in every state of a reader
\* or a writer 0 <= head < fifosize, 0 <= tail < fifosize and
\* fifosize <= bufsize, and fifosize is a positive multiple of the stream's
\* bytesperframe * MAXVECSIZE, also after a reopen with another bytesperframe.
C29_RingIndexBounds ==
    (obs.kind \in {"readsf", "writesf"} /\ x_fifosize # 0) =>
       /\ x_fifosize > 0 /\ x_fifosize <= x_bufsize
       /\ x_fifohead >= 0 /\ x_fifohead < x_fifosize
       /\ x_fifotail >= 0 /\ x_fifotail < x_fifosize
       /\ StreamCurrent =>
             x_fifosize % (x_sf.bytesperframe * MAXVECSIZE) = 0

\* the step in which read_samples stores n > 0 bytes of the current stream
\* (no new request has been made) in the ring, from the head the worker saw
\* when it asked for them
ReadStored ==
    /\ pcC = "read_io" /\ pcC' = "read_io_lock"
    /\ x_requestcode = REQUEST_BUSY /\ c'.bytesread > 0

\* the index of the slot before the tail
SlotBeforeTail == (x_fifotail + x_fifosize - 1) % x_fifosize

\* the bytes of the stream in the ring when no read is in flight: those read
\* from the file less those the callback has decoded
BytesInRing == fs.pos - (x_onsetframes * x_sf.bytesperframe + obs.decoded)

\* C30: the reader's worker never fills the ring completely: no read it
\* commits makes head equal to tail, and no read stores a byte in the slot
\* before the tail, however the callback advances the tail while the worker
\* is in read_samples; so head = tail means that the ring is empty.
C30_OneEmptySlot ==
    [][/\ ReadCommitted => x_fifohead' # x_fifotail'
       /\ ReadStored =>
             ~(SlotBeforeTail >= c.fifohead
               /\ SlotBeforeTail < c.fifohead + c'.bytesread)
       /\ (/\ pcC \in {"fill", "fill_wait"} /\ x_requestcode = REQUEST_BUSY
           /\ x_state = STATE_STREAM /\ obs.ok /\ fs.name = x_filename
           /\ x_fifohead = x_fifotail) => BytesInRing = 0]_vars

\* the step in which writesf_perform encodes a block into the ring
WriterEncodes == pcP = "wperf_cs" /\ obs'.encoded # obs.encoded

\* the bytes in the ring that the worker has not yet written to the file
BytesToWrite == (x_fifohead - x_fifotail + x_fifosize) % x_fifosize

\* index i of the ring holds a byte that is still to be written to the file
Undrained(i) == (i - x_fifotail + x_fifosize) % x_fifosize < BytesToWrite

\* C31: writesf_perform encodes a block only with at least wantbytes + 1
\* bytes of free room in the ring; it overwrites no byte the worker has still
\* to write to the file, writes at no index >= fifosize and never moves the
\* head onto the tail, however the worker advances the tail.
C31_WriterOneEmptySlot ==
    [][WriterEncodes =>
          LET wantbytes == obs'.encoded - obs.encoded
          IN /\ wantbytes = x_vecsize * x_sf.bytesperframe
             /\ x_fifosize - BytesToWrite >= wantbytes + 1
             /\ x_fifohead + wantbytes <= x_fifosize
             /\ x_fifohead' # x_fifotail'
             /\ \A i \in x_fifohead..(x_fifohead + wantbytes - 1) :
                   ~Undrained(i) /\ x_buf'[i] # x_buf[i]]_vars

\* the step in which readsf_perform decodes a block of vecsize frames (not
\* the EOF transition)
ReaderDecodes == pcP = "perf_cs" /\ pcP' = "idle" /\ obs'.out = "block"

\* the bytes the worker has committed that lie in one piece from the tail on
ProducedAtTail ==
    IF x_fifohead >= x_fifotail
    THEN x_fifohead - x_fifotail
    ELSE x_fifosize - x_fifotail

\* C32: outside the EOF transition readsf_perform decodes a block only when
\* the ring holds wantbytes = vecsize * bytesperframe produced bytes in one
\* piece from the tail on, so it decodes no byte the worker has not stored,
\* whatever read_samples returns (short reads included).
C32_ReaderNoUnderrun ==
    [][ReaderDecodes =>
          /\ p.vecsize * p.bpf = x_vecsize * x_sf.bytesperframe
          /\ ProducedAtTail >= x_vecsize * x_sf.bytesperframe]_vars

\* the worker is inside open_soundfile_via_path, create_soundfile,
\* t_readsamplesfn, t_writesamplesfn, soundfile_finishwrite or t_closefn
IoPcs ==
    {"open_close", "lost_close", "close_close", "quit_close", "open_io",
     "read_io", "wopen_finish", "wclose_finish", "create_io", "write_io"}

\* a step of readsf_perform or writesf_perform, from the call to the return
PerformStep ==
    \/ pcP \in PerformPcs \cup WPerformPcs /\ pcP' # pcP
    \/ pcP = "idle" /\ pcP' \in {"perf_lock", "wperf_lock"}
    \/ pcP = "idle" /\ obs.out # "zero" /\ obs'.out = "zero"

\* C33: file I/O that may block is never done with the mutex held: a reader's
\* or writer's worker that is in open, create, read_samples, write_samples,
\* soundfile_finishwrite or close does not hold the mutex, and the perform
\* routine does none of these (it leaves the file, its position, the bytes
\* handed to the file and the header alone).
C33_NoIoUnderMutex ==
    [][/\ pcC \in IoPcs => mutex # "child"
       /\ pcC' \in IoPcs => mutex' # "child"
       /\ PerformStep =>
             /\ fs' = fs
             /\ obs'.handed = obs.handed /\ obs'.header = obs.header]_vars

\* the writer's worker is in write_samples while the perform routine holds
\* the mutex and looks at the ring
C33_Witness ==
    /\ pcC = "write_io" /\ mutex = "parent" /\ pcP = "wperf_cs"
    /\ x_fifohead # x_fifotail

\* the shared fields of the object
SharedFields ==
    <<x_state, x_requestcode, x_fifohead, x_fifotail, x_sf, x_filename, x_eof,
      x_fileerror, x_frameswritten, x_sigperiod, x_vecsize>>

\* readsf_start or writesf_start turns STARTUP into STREAM, with no mutex
StartWrites ==
    /\ pcP = "idle" /\ pcP' = "idle"
    /\ x_state = STATE_STARTUP /\ x_state' = STATE_STREAM

\* a step of a method or of the perform routine, not of the worker
HostStep == pcP' # pcP \/ p' # p \/ obs'.ops # obs.ops

\* a step in which the worker runs soundfile_copy(&sf, &x->x_sf) or reads
\* x->x_sf.sf_fd: when it takes up a request, before create_soundfile, at
\* the head of a pass of the fill loop, and before a close
WorkerCopiesSf ==
    \/ pcC = "top" /\ pcC' \in {"open_close", "open_io", "wopen_finish", "create_io"}
    \/ pcC = "open_close_cs" /\ pcC' = "open_io"
    \/ pcC = "create_io" /\ pcC' = "create_lock"
    \/ pcC = "fill" /\ pcC' = "read_io"

\* C34: once the worker runs, every write to state, request, head, tail, sf,
\* filename, eof, fileerror, frameswritten, sigperiod and vecsize is made by
\* a thread that holds the mutex, except the write of STREAM by start; and
\* the worker copies the shared sf only while it holds the mutex.
C34_SharedWritesUnderMutex ==
    [][/\ SharedFields' # SharedFields =>
             IF HostStep THEN mutex = "parent" \/ StartWrites
             ELSE mutex = "child"
       /\ WorkerCopiesSf => mutex = "child"]_vars

\* the step in which writesf_open stores the new request (filename, sf, head,
\* tail, frameswritten, request code)
OpenOverwrites ==
    pcP = "wopen_cs" /\ x_requestcode' = REQUEST_OPEN /\ x_filename' # x_filename

\* the step in which the writer's worker takes up an OPEN request
WorkerTakesOpen ==
    /\ obs.kind = "writesf" /\ pcC = "top" /\ x_requestcode = REQUEST_OPEN
    /\ x_requestcode' = REQUEST_BUSY

\* C35: writesf_open stores its request only when the request code is
\* NOTHING, after it has stopped a stream that was not IDLE; so when the
\* writer's worker takes up an OPEN request no file is open (x_sf.sf_fd is
\* -1 and no descriptor is left) and no bytes of an earlier stream are still
\* to be written.
C35_OpenAfterWorkerIdle ==
    [][/\ OpenOverwrites =>
             /\ x_requestcode = REQUEST_NOTHING
             /\ x_fifohead = x_fifotail
       /\ WorkerTakesOpen => (x_sf.fd < 0 /\ fs.fds = {})]_vars

\* C36: whenever the reader or the writer assigns x_sigperiod (the worker at
\* the start of a stream, writesf_open, and readsf_dsp and writesf_dsp when
\* the DSP chain is rebuilt) the value is
\* fifosize / (16 * bytesperframe * vecsize), so that the perform routine
\* signals the worker about 16 times per turn of the ring.
C36_SignalPeriod ==
    [][x_sigperiod' # x_sigperiod =>
          x_sigperiod' = x_fifosize' \div
                            (SigsPerBuffer * x_sf'.bytesperframe * x_vecsize')]_vars

\* the worker's step after read_samples has returned and the mutex is retaken
ReadReturns == pcC = "read_cs" /\ pcC' # "read_cs"

\* read_samples returned fewer bytes than were asked for, and no error
ShortRead == c.bytesread >= 0 /\ c.bytesread < c.wantbytes

\* C37 as stated: whenever read_samples returns fewer bytes than were
\* requested (a short read, zero bytes included) the worker sets eof.
C37_ShortReadSetsEof ==
    [][(ReadReturns /\ x_requestcode = REQUEST_BUSY /\ ShortRead) =>
          x_eof' = 1]_vars

\* C37: in the fill loop, when read_samples returns zero bytes and the
\* request is still BUSY, the worker sets eof and leaves the loop; a read of
\* one byte or more, short or not, is committed (head and bytelimit move by
\* the bytes read) and sets eof exactly when it brings bytelimit to zero or
\* below.
C37_ZeroReadSetsEof ==
    [][(ReadReturns /\ x_requestcode = REQUEST_BUSY /\ c.bytesread >= 0) =>
          IF c.bytesread = 0
          THEN x_eof' = 1 /\ pcC' = "lost" /\ x_fifohead' = x_fifohead
          ELSE /\ x_sf'.bytelimit = x_sf.bytelimit - c.bytesread
               /\ x_fifohead' = (x_fifohead + c.bytesread) % x_fifosize
               /\ (x_eof' = 1) = (x_eof = 1 \/ x_sf'.bytelimit <= 0)]_vars

\* a short read of at least one byte has been stored and the stream goes on
C37_Witness ==
    /\ pcC = "fill" /\ x_requestcode = REQUEST_BUSY
    /\ x_eof = 0 /\ x_sf.bytelimit > 0
    /\ x_fifohead % READSIZE # 0

\* the shared fields a read that is thrown away must leave as the host set them
ReadDiscarded ==
    /\ x_requestcode' = x_requestcode
    /\ x_fifohead' = x_fifohead /\ x_fifotail' = x_fifotail
    /\ x_eof' = x_eof /\ x_fileerror' = x_fileerror
    /\ x_sf'.bytelimit = x_sf.bytelimit

\* C38: when open, stop or destroy changes the request code while the worker
\* is inside read_samples, the worker on return commits nothing of the read
\* (head, tail, eof, fileerror and bytelimit stay as the host left them),
\* leaves the fill loop, closes the file it was reading with the mutex
\* released, and returns to the top of its loop with the new request still
\* posted, not reset to NOTHING.
C38_ChangedRequestDiscardsRead ==
    [][/\ (ReadReturns /\ x_requestcode # REQUEST_BUSY) =>
             /\ pcC' = "lost" /\ ReadDiscarded
             /\ sf.fd \in fs.fds /\ sf' = sf
       /\ (pcC = "lost" /\ pcC' # "lost" /\ x_requestcode # REQUEST_BUSY) =>
             /\ ReadDiscarded
             /\ sf.fd >= 0 => (pcC' = "lost_close" /\ mutex' = "free")
       /\ (pcC = "lost_close" /\ pcC' # "lost_close") =>
             /\ mutex # "child" /\ ReadDiscarded
             /\ sf.fd \notin fs'.fds /\ pcC' = "lost_close_lock"
       /\ (pcC = "lost_cs" /\ pcC' # "lost_cs") =>
             pcC' = "top" /\ ReadDiscarded]_vars

\* the worker has left the fill loop of a stream that a new open replaced
\* while a read of less than one frame was under way (the file position is
\* off the frame boundary the open had sought to, and the ring was never full,
\* so the worker never waited); it has released the mutex to close that file,
\* and the new request is still posted
C38_Witness ==
    /\ pcC = "lost_close" /\ mutex = "free"
    /\ x_requestcode = REQUEST_OPEN
    /\ sf.fd \in fs.fds
    /\ fs.pos % sf.bytesperframe # 0 /\ fs.pos < READSIZE
    /\ x_fifohead = 0 /\ x_fifotail = 0 /\ x_eof = 0

\* the writer's worker waits on request_cv with nothing requested, or has
\* left writesf_child_main after QUIT
WriterWorkerAtRest ==
    \/ pcC = "top_wait" /\ x_requestcode = REQUEST_NOTHING
    \/ pcC = "done"

\* C39: whenever the writer's worker waits with request = NOTHING, or has
\* exited after QUIT, no file it created is still open, and no descriptor is
\* closed that is not open (every created file is finished and closed exactly
\* once), also when stop or destroy arrives while the worker is inside
\* create_soundfile.
C39_EveryCreatedFileClosed ==
    /\ ~fs.badclose
    /\ WriterWorkerAtRest => fs.fds = {}

\* soundfiler_dowrite has gone through its range check: it has returned at
\* fail or is about to create the file
RangeChecked == pcC \in {"dw_returned", "dw_create"} /\ "lens" \in DOMAIN c

\* C40: in the bulk writer the elements read of every table, onset to
\* onset + nframes - 1, lie within the table; and when the -skip onset is
\* greater than or equal to the length of a table, the command reports that
\* there are no samples at the onset, creates no file and returns 0.
C40_WriteRangeInTable ==
    RangeChecked =>
       /\ c.created =>
             \A i \in DOMAIN c.lens :
                c.first <= c.last /\ c.last <= c.lens[i]
       /\ (\E i \in DOMAIN c.lens : c.onsetframes >= c.lens[i]) =>
             /\ pcC = "dw_returned" /\ c.ret = 0
             /\ c.msg = "no samples at onset" /\ ~c.created

====
